---- MODULE Spec2Model ----
(***************************************************************************)
(* Threshold-decryption society of fhe-zama (mpc_network.rs): the trusted  *)
(* dealer MpcNetwork, its Actors with a single-slot inbox, the             *)
(* DecryptionMeeting that collects verified decryption shares, and the     *)
(* coordinator mpc_decrypt.                                                *)
(*                                                                         *)
(* The blsttc primitives are modelled by what they compute.  Group         *)
(* elements are written by their discrete logarithm in the scalar field    *)
(* Z_P, so a pairing equation e(a, b) = e(c, d) reads a*b = c*d (mod P):   *)
(*   SecretKeySet        a polynomial of degree `threshold` over Z_P       *)
(*   secret_key_share(i) the polynomial at i + 1                           *)
(*   PublicKeySet        the commitment to the same polynomial             *)
(*   Ciphertext(U, V, W) U = r, V = msg xor keystream(r * pk),             *)
(*                       W = r * hash(U, V)                                *)
(*   DecryptionShare     U * sk_share                                      *)
(*   PublicKeySet::decrypt  Lagrange interpolation at 0 over the first     *)
(*                       threshold + 1 shares, then the xor                *)
(*                                                                         *)
(* Further parts: the ECDH channel to the users (ecdh/src/lib.rs), the Mpc *)
(* branch of fhe-zama's main with fhe_distance on full-width u32 values    *)
(* (main.rs, fhe_distance.rs), the position state of fhe-sunscreen's AVS   *)
(* node (fhe_sunscreen.rs), and the keys of the records its two nodes      *)
(* exchange over Kademlia (fhe-sunscreen's main.rs).                       *)
(***************************************************************************)
EXTENDS Integers, Sequences, FiniteSets, TLC

VARIABLES status, pk_set, actors, meeting, last, reqs, chan, game, avs, dht

vars == <<status, pk_set, actors, meeting, last, reqs, chan, game, avs, dht>>

(* ---------------------------- bounds ----------------------------------- *)
MaxActors == 3
MaxThreshold == 2
(* calls of ecdh_encrypt *)
MaxSeals == 2

(* order of the scalar field the model computes in (prime) *)
P == 7
(* outcomes of the dealer's random number generator *)
Seeds == {1, 2}
(* what clients encrypt: (message bytes, encryption randomness r) *)
ClientInputs == {<< <<>>, 1 >>, << <<2, 3>>, 2 >>}

(* ---------------------------- Option / Result -------------------------- *)
None == <<>>
Some(x) == <<x>>
IsSome(o) == o # <<>>
Unwrap(o) == o[1]

Ok(bytes) == [tag |-> "Ok", bytes |-> bytes, err |-> ""]
Err(e) == [tag |-> "Err", bytes |-> <<>>, err |-> e]
NoResult == [tag |-> "None", bytes |-> <<>>, err |-> ""]

(* ---------------------------- field arithmetic ------------------------- *)
Mod(a) == ((a % P) + P) % P
Inv(a) == IF a % P = 0 THEN 0 ELSE CHOOSE b \in 1..(P - 1) : (a * b) % P = 1

RECURSIVE EvalFrom(_, _, _)
EvalFrom(poly, x, k) ==
    IF k > Len(poly) THEN 0 ELSE Mod(poly[k] + x * EvalFrom(poly, x, k + 1))

(* Poly::evaluate / Commitment::evaluate (Horner) *)
Evaluate(poly, x) == EvalFrom(poly, x, 1)

(* Poly::random(threshold, rng): threshold + 1 coefficients *)
RandomPoly(threshold, seed) ==
    [k \in 1..(threshold + 1) |-> (seed * (k + 1) + k) % P]

Threshold(pks) == Len(pks) - 1
PublicKey(pks) == Evaluate(pks, 0)
SecretKeyShare(poly, i) == Evaluate(poly, i + 1)
PublicKeyShare(pks, i) == Evaluate(pks, i + 1)

(* ---------------------------- bytes ------------------------------------ *)
(* bytes are two bits wide in the model *)
XorByte(a, b) == ((a + b) % 2) + 2 * ((((a \div 2) + (b \div 2))) % 2)
KeyStream(g, k) == (3 * g + k) % 4
XorWithHash(g, bytes) == [k \in 1..Len(bytes) |-> XorByte(bytes[k], KeyStream(g, k))]

RECURSIVE SumBytes(_, _)
SumBytes(bytes, k) == IF k > Len(bytes) THEN 0 ELSE bytes[k] + SumBytes(bytes, k + 1)

(* hash_g1_g2(U, V): never the identity element *)
HashG1G2(u, v) == 1 + ((u + 2 * SumBytes(v, 1) + Len(v)) % (P - 1))

(* ---------------------------- threshold encryption --------------------- *)
(* PublicKey::encrypt with randomness r *)
Encrypt(pk, msg, r) ==
    LET v == XorWithHash(Mod(pk * r), msg)
    IN  [u |-> r, v |-> v, w |-> Mod(r * HashG1G2(r, v))]

(* Ciphertext::verify: e(g1, W) = e(U, hash(U, V)) *)
CiphertextVerify(ct) == ct.w = Mod(ct.u * HashG1G2(ct.u, ct.v))

(* SecretKeyShare::decrypt_share: None when the ciphertext does not verify *)
DecryptShare(sk_share, ct) ==
    IF CiphertextVerify(ct) THEN Some(Mod(ct.u * sk_share)) ELSE None

(* a verification that accepts whatever it is given *)
VerifyAnything(pk_share, share, ct) == TRUE

(* PublicKeyShare::verify_decryption_share:
   e(share, hash(U, V)) = e(pk_share, W) *)
VerifyDecryptionShare(pk_share, share, ct) ==
    Mod(share * HashG1G2(ct.u, ct.v)) = Mod(pk_share * ct.w)

(* the Lagrange coefficient at 0 of sample k among the samples: the product
   over the other samples j of x_j / (x_j - x_k), where x = id + 1 *)
RECURSIVE LagrangeAt0(_, _, _)
LagrangeAt0(samples, k, j) ==
    IF j > Len(samples) THEN 1
    ELSE IF j = k THEN LagrangeAt0(samples, k, j + 1)
    ELSE Mod((samples[j][1] + 1)
             * Inv(Mod((samples[j][1] + 1) - (samples[k][1] + 1)))
             * LagrangeAt0(samples, k, j + 1))

RECURSIVE SumLagrange(_, _)
SumLagrange(samples, k) ==
    IF k > Len(samples) THEN 0
    ELSE Mod(samples[k][2] * LagrangeAt0(samples, k, 1) + SumLagrange(samples, k + 1))

(* interpolate(t, items): the first t + 1 items in key order, at 0 *)
Interpolate(t, items) ==
    LET samples == SubSeq(items, 1, IF Len(items) < t + 1 THEN Len(items) ELSE t + 1)
    IN  IF Len(samples) <= t THEN None ELSE Some(SumLagrange(samples, 1))

(* PublicKeySet::decrypt *)
PkSetDecrypt(pks, shares, ct) ==
    LET g == Interpolate(Threshold(pks), shares)
    IN  IF IsSome(g) THEN Ok(XorWithHash(Unwrap(g), ct.v)) ELSE Err("NotEnoughShares")

(* ---------------------------- ecdh -------------------------------------- *)
(* the k256 group is modelled by the subgroup of prime order 5 of the
   integers modulo Q, generated by G; secret scalars are the nonzero
   residues modulo that order *)
Q == 11
G == 4
Scalars == 1..4

RECURSIVE ModExp(_, _)
ModExp(b, e) == IF e = 0 THEN 1 ELSE (b * ModExp(b, e - 1)) % Q

(* a group element or coordinate as bytes (two bits each), and back *)
ToBytes(x) == <<x \div 4, x % 4>>
FromBytes(bytes) == 4 * bytes[1] + bytes[2]

(* EncodedPoint::from(public_key) and PublicKey::from_sec1_bytes *)
Sec1Bytes(point) == ToBytes(point)
FromSec1Bytes(bytes) == FromBytes(bytes)

(* generate_ecdh_keys: the secret drawn from OsRng, and its public key
   through its SEC1 encoding *)
GenerateEcdhKeys(draw) ==
    [sk |-> draw, pk |-> FromSec1Bytes(Sec1Bytes(ModExp(G, draw)))]

(* a shared secret computed with the caller's own public key *)
SharedSecretOwnKey(sk, public_key) == ToBytes(ModExp(ModExp(G, sk), sk))

(* compute_shared_secret: raw_secret_bytes of sk.diffie_hellman(public_key) *)
ComputeSharedSecret(sk, public_key) == ToBytes(ModExp(public_key, sk))

(* lengths of the ChaCha20Poly1305 nonce and tag, in bytes of the model *)
NonceLen == 3
TagLen == 2
(* what generate_nonce(&mut OsRng) can return *)
Nonces == {<<0, 1, 2>>, <<3, 1, 0>>}

(* ChaCha20 key stream byte k under a key and a nonce *)
ChaChaStream(key, nonce, k) == (SumBytes(key, 1) + 3 * SumBytes(nonce, 1) + nonce[1] + k) % 4
ChaChaXor(key, nonce, bytes) ==
    [k \in 1..Len(bytes) |-> XorByte(bytes[k], ChaChaStream(key, nonce, k))]

(* Poly1305 tag over the nonce-keyed ciphertext: byte k of the tag mixes one
   key byte with every nonce and ciphertext byte *)
Poly1305Tag(key, nonce, body) ==
    [k \in 1..TagLen |->
        (key[1 + (k % Len(key))] + 2 * key[1 + ((k + 1) % Len(key))] * (k % 2)
            + SumBytes(nonce, 1) + SumBytes(body, 1) + Len(body)) % 4]

(* Aead::encrypt: ciphertext followed by the tag *)
AeadEncrypt(key, nonce, cleartext) ==
    LET body == ChaChaXor(key, nonce, cleartext)
    IN  body \o Poly1305Tag(key, nonce, body)

(* Aead::decrypt that does not compare the tag *)
AeadDecryptUnchecked(key, nonce, sealed) ==
    IF Len(sealed) < TagLen THEN None
    ELSE Some(ChaChaXor(key, nonce, SubSeq(sealed, 1, Len(sealed) - TagLen)))

(* Aead::decrypt: None (aead::Error) when the tag does not match *)
AeadDecrypt(key, nonce, sealed) ==
    IF Len(sealed) < TagLen THEN None
    ELSE LET body == SubSeq(sealed, 1, Len(sealed) - TagLen)
             tag == SubSeq(sealed, Len(sealed) - TagLen + 1, Len(sealed))
         IN  IF tag = Poly1305Tag(key, nonce, body)
             THEN Some(ChaChaXor(key, nonce, body))
             ELSE None

(* encrypt that puts the nonce after the sealed bytes *)
EcdhEncryptNonceLast(cleartext, shared_secret, nonce) ==
    AeadEncrypt(shared_secret, nonce, cleartext) \o nonce

(* encrypt that seals under a nonce fixed in the code *)
EcdhEncryptFixedNonce(cleartext, shared_secret, nonce) ==
    <<0, 1, 2>> \o AeadEncrypt(shared_secret, <<0, 1, 2>>, cleartext)

(* ecdh::encrypt, nonce being what generate_nonce returned: the sealed bytes
   with the nonce spliced in at the front *)
EcdhEncrypt(cleartext, shared_secret, nonce) ==
    LET obsf == AeadEncrypt(shared_secret, nonce, cleartext)
    IN  nonce \o obsf

(* ecdh::decrypt: split_at panics on a blob shorter than the nonce, unwrap
   panics on aead::Error *)
EcdhDecrypt(obsf, shared_secret) ==
    IF Len(obsf) < NonceLen
    THEN [outcome |-> "panic_split", bytes |-> None]
    ELSE LET nonce == SubSeq(obsf, 1, NonceLen)
             ciphertext == SubSeq(obsf, NonceLen + 1, Len(obsf))
             plaintext == AeadDecrypt(shared_secret, nonce, ciphertext)
         IN  IF IsSome(plaintext)
             THEN [outcome |-> "returned", bytes |-> plaintext]
             ELSE [outcome |-> "panic_aead", bytes |-> None]

(* ecdh_encrypt that agrees on the key with the society's own public key *)
NetworkEcdhEncryptToSelf(network, msg, target_public_key, nonce) ==
    EcdhEncrypt(msg, ComputeSharedSecret(network.sk, network.pk), nonce)

(* MpcNetwork::ecdh_encrypt *)
NetworkEcdhEncrypt(network, msg, target_public_key, nonce) ==
    LET shared_secret == ComputeSharedSecret(network.sk, target_public_key)
    IN  EcdhEncrypt(msg, shared_secret, nonce)

(* User::decrypt_ecdh_message *)
DecryptEcdhMessage(user, msg, pubkey) ==
    LET shared_secret == ComputeSharedSecret(user.sk, pubkey)
    IN  EcdhDecrypt(msg, shared_secret)

(* ---------------------------- Actor ------------------------------------ *)
(* Actor::new *)
ActorNew(id, pk_share, sk_share) ==
    [id |-> id, pk_share |-> pk_share, sk_share |-> sk_share, msg_inbox |-> None]

ActorIds == DOMAIN actors

(* MpcNetwork::new: the dealer draws the key set and deals one share each *)
MpcNetworkNew(n_actors, threshold, seed) ==
    LET sk_set == RandomPoly(threshold, seed)
        pks == sk_set
    IN  [pk_set |-> pks,
         actors |-> [id \in 0..(n_actors - 1) |->
                        ActorNew(id, PublicKeyShare(pks, id), SecretKeyShare(sk_set, id))],
         ecdh |-> GenerateEcdhKeys(1 + seed)]

(* MpcNetwork::publish_public_key *)
PublishPublicKey == PublicKey(pk_set)

(* the ciphertexts clients produce under the published key *)
Ciphertexts == {Encrypt(PublishPublicKey, in[1], in[2]) : in \in ClientInputs}

(* a delivery that is lost *)
SendMessageLost(acts, id, enc_msg) == acts

(* ciphertexts that reach the society with a W that does not match U and V
   (Ciphertext is deserializable; send_message takes any Ciphertext) *)
MalformedCiphertexts == {[ct EXCEPT !.w = Mod(@ + 1)] : ct \in Ciphertexts}

(* a delivery that keeps a ciphertext that is waiting *)
SendMessageIfEmpty(acts, id, enc_msg) ==
    IF IsSome(acts[id].msg_inbox) THEN acts
    ELSE [acts EXCEPT ![id].msg_inbox = Some(enc_msg)]

(* a delivery that reaches every actor *)
SendMessageBroadcast(acts, id, enc_msg) ==
    [j \in DOMAIN acts |-> [acts[j] EXCEPT !.msg_inbox = Some(enc_msg)]]

(* a delivery that never reaches the first actor *)
SendMessageSkipFirst(acts, id, enc_msg) ==
    IF id = 0 THEN acts ELSE [acts EXCEPT ![id].msg_inbox = Some(enc_msg)]

(* MpcNetwork::send_message on the actor vector *)
SendMessage(acts, id, enc_msg) == [acts EXCEPT ![id].msg_inbox = Some(enc_msg)]

(* a meeting that starts on the ciphertext waiting at the first actor *)
StartMeetingOnInbox ==
    [pk_set |-> pk_set, ciphertext |-> actors[0].msg_inbox, dec_shares |-> <<>>]

(* MpcNetwork::start_decryption_meeting *)
StartDecryptionMeeting ==
    [pk_set |-> pk_set, ciphertext |-> None, dec_shares |-> <<>>]

(* BTreeMap<usize, DecryptionShare>: the entries <<key, value>> in key order *)
MapKeys(map) == {map[k][1] : k \in 1..Len(map)}
MapGet(map, key) == (CHOOSE k \in 1..Len(map) : map[k][1] = key)

(* Vec::push in the place of BTreeMap::insert *)
MapPush(map, key, val) == Append(map, <<key, val>>)

(* BTreeMap::insert: replaces the value of a key that is present *)
MapInsert(map, key, val) ==
    IF key \in MapKeys(map)
    THEN [map EXCEPT ![MapGet(map, key)] = <<key, val>>]
    ELSE LET below == SelectSeq(map, LAMBDA e : e[1] < key)
             above == SelectSeq(map, LAMBDA e : e[1] > key)
         IN  below \o << <<key, val>> >> \o above

(* ---------------------------- DecryptionMeeting ------------------------ *)
(* a take that wipes the actor's secret share with the inbox *)
TakeInboxAndShare(actor) == [actor EXCEPT !.msg_inbox = None, !.sk_share = 0]

(* Option::clone in the place of Option::take *)
PeekInbox(actor) == actor

(* Option::take on the inbox *)
TakeInbox(actor) == [actor EXCEPT !.msg_inbox = None]

(* a comparison that never tells two ciphertexts apart *)
CiphertextNeverDiffers(m, ciphertext) == FALSE

(* the meeting has a ciphertext and the actor's is another one *)
CiphertextDiffers(m, ciphertext) ==
    IsSome(m.ciphertext) /\ ciphertext # Unwrap(m.ciphertext)

(* the else branch left out *)
BindNothing(m, ciphertext) == m

(* the first actor to arrive sets the meeting's ciphertext *)
BindCiphertext(m, ciphertext) ==
    IF IsSome(m.ciphertext) THEN m ELSE [m EXCEPT !.ciphertext = Some(ciphertext)]

(* accept_decryption_share that starts the collection over when a share
   fails verification *)
AcceptResetOnInvalid(m, actor) ==
    LET taken == TakeInbox(actor)
    IN  IF ~IsSome(actor.msg_inbox)
        THEN [meeting |-> m, actor |-> taken, outcome |-> "panic_inbox"]
        ELSE
        LET ciphertext == Unwrap(actor.msg_inbox)
            bound == BindCiphertext(m, ciphertext)
            dec_share == DecryptShare(actor.sk_share, ciphertext)
        IN  IF CiphertextDiffers(m, ciphertext)
            THEN [meeting |-> m, actor |-> taken, outcome |-> "mismatch"]
            ELSE IF ~IsSome(dec_share)
            THEN [meeting |-> bound, actor |-> taken, outcome |-> "panic_share"]
            ELSE IF VerifyDecryptionShare(actor.pk_share, Unwrap(dec_share), ciphertext)
            THEN [meeting |-> [bound EXCEPT !.dec_shares =
                                  MapInsert(@, actor.id, Unwrap(dec_share))],
                  actor |-> taken, outcome |-> "inserted"]
            ELSE [meeting |-> [bound EXCEPT !.dec_shares = <<>>],
                  actor |-> taken, outcome |-> "invalid"]

(* accept_decryption_share that sets the meeting's ciphertext only once the
   share has verified *)
AcceptBindAfterVerify(m, actor) ==
    LET taken == TakeInbox(actor)
    IN  IF ~IsSome(actor.msg_inbox)
        THEN [meeting |-> m, actor |-> taken, outcome |-> "panic_inbox"]
        ELSE
        LET ciphertext == Unwrap(actor.msg_inbox)
            bound == BindCiphertext(m, ciphertext)
            dec_share == DecryptShare(actor.sk_share, ciphertext)
        IN  IF CiphertextDiffers(m, ciphertext)
            THEN [meeting |-> m, actor |-> taken, outcome |-> "mismatch"]
            ELSE IF ~IsSome(dec_share)
            THEN [meeting |-> m, actor |-> taken, outcome |-> "panic_share"]
            ELSE IF VerifyDecryptionShare(actor.pk_share, Unwrap(dec_share), ciphertext)
            THEN [meeting |-> [bound EXCEPT !.dec_shares =
                                  MapInsert(@, actor.id, Unwrap(dec_share))],
                  actor |-> taken, outcome |-> "inserted"]
            ELSE [meeting |-> m, actor |-> taken, outcome |-> "invalid"]

(* DecryptionMeeting::accept_decryption_share: the meeting and the actor
   after the call, and the path taken *)
AcceptDecryptionShare(m, actor) ==
    LET taken == TakeInbox(actor)
    IN  IF ~IsSome(actor.msg_inbox)
        THEN [meeting |-> m, actor |-> taken, outcome |-> "panic_inbox"]
        ELSE
        LET ciphertext == Unwrap(actor.msg_inbox)
            bound == BindCiphertext(m, ciphertext)
            dec_share == DecryptShare(actor.sk_share, ciphertext)
        IN  IF CiphertextDiffers(m, ciphertext)
            THEN [meeting |-> m, actor |-> taken, outcome |-> "mismatch"]
            ELSE IF ~IsSome(dec_share)
            THEN [meeting |-> bound, actor |-> taken, outcome |-> "panic_share"]
            ELSE IF VerifyDecryptionShare(actor.pk_share, Unwrap(dec_share), ciphertext)
            THEN [meeting |-> [bound EXCEPT !.dec_shares =
                                  MapInsert(@, actor.id, Unwrap(dec_share))],
                  actor |-> taken, outcome |-> "inserted"]
            ELSE [meeting |-> bound, actor |-> taken, outcome |-> "invalid"]

IsPanic(outcome) ==
    outcome \in {"panic_inbox", "panic_share", "panic_ciphertext", "panic_actor",
                 "panic_split", "panic_aead", "panic_assert"}

(* DecryptionMeeting::decrypt_message *)
DecryptMessage(m) ==
    IF ~IsSome(m.ciphertext)
    THEN [outcome |-> "panic_ciphertext", res |-> NoResult]
    ELSE LET r == PkSetDecrypt(m.pk_set, m.dec_shares, Unwrap(m.ciphertext))
         IN  [outcome |-> "returned",
              res |-> IF r.tag = "Ok" THEN r ELSE Err("decryption failed")]

(* ---------------------------- coordinator ------------------------------ *)
(* mpc_decrypt that takes alice's share only *)
MpcDecryptAliceOnly(acts, ciphertext) ==
    IF ~({0, 1, 2} \subseteq DOMAIN acts)
    THEN [actors |-> acts, outcome |-> "panic_actor", res |-> NoResult,
          delivered |-> {}, accepted |-> {}, opened |-> 0, nshares |-> 0]
    ELSE
    LET sent == SendMessage(SendMessage(SendMessage(acts, 0, ciphertext), 1, ciphertext),
                            2, ciphertext)
        a1 == AcceptDecryptionShare(StartDecryptionMeeting, sent[0])
        acts1 == [sent EXCEPT ![0] = a1.actor]
        d == DecryptMessage(a1.meeting)
    IN  IF IsPanic(a1.outcome)
        THEN [actors |-> acts1, outcome |-> a1.outcome, res |-> NoResult,
              delivered |-> {0, 1, 2}, accepted |-> {0}, opened |-> 1,
              nshares |-> Len(a1.meeting.dec_shares)]
        ELSE [actors |-> acts1, outcome |-> d.outcome, res |-> d.res,
              delivered |-> {0, 1, 2}, accepted |-> {0}, opened |-> 1,
              nshares |-> Len(a1.meeting.dec_shares)]

(* mpc_decrypt: the actor vector after the call, what was delivered and
   accepted, the meeting it opened, and the value returned *)
MpcDecrypt(acts, ciphertext) ==
    IF ~({0, 1, 2} \subseteq DOMAIN acts)
    THEN [actors |-> acts, outcome |-> "panic_actor", res |-> NoResult,
          delivered |-> {}, accepted |-> {}, opened |-> 0, nshares |-> 0]
    ELSE
    LET sent == SendMessage(SendMessage(SendMessage(acts, 0, ciphertext), 1, ciphertext),
                            2, ciphertext)
        m0 == StartDecryptionMeeting
        a1 == AcceptDecryptionShare(m0, sent[0])
        acts1 == [sent EXCEPT ![0] = a1.actor]
        a2 == AcceptDecryptionShare(a1.meeting, acts1[1])
        acts2 == [acts1 EXCEPT ![1] = a2.actor]
        d == DecryptMessage(a2.meeting)
    IN  IF IsPanic(a1.outcome)
        THEN [actors |-> acts1, outcome |-> a1.outcome, res |-> NoResult,
              delivered |-> {0, 1, 2}, accepted |-> {0}, opened |-> 1,
              nshares |-> Len(a1.meeting.dec_shares)]
        ELSE IF IsPanic(a2.outcome)
        THEN [actors |-> acts2, outcome |-> a2.outcome, res |-> NoResult,
              delivered |-> {0, 1, 2}, accepted |-> {0, 1}, opened |-> 1,
              nshares |-> Len(a2.meeting.dec_shares)]
        ELSE [actors |-> acts2, outcome |-> d.outcome, res |-> d.res,
              delivered |-> {0, 1, 2}, accepted |-> {0, 1}, opened |-> 1,
              nshares |-> Len(a2.meeting.dec_shares)]

(* ---------------------------- coordinator, line by line ---------------- *)
(* the callers of mpc_decrypt *)
Requests == {1, 2}

(* one call of mpc_decrypt: the line it is at, its argument, its local
   meeting and the value it returned *)
Request(pc, ciphertext, m, res) ==
    [pc |-> pc, ciphertext |-> ciphertext, meeting |-> m, res |-> res]

NotCalled == Request("idle", None, None, NoResult)

NoRequests == [r \in Requests |-> NotCalled]

(* the actor a line of mpc_decrypt works on: alice, bob, carol *)
ActorOfLine(pc) ==
    CASE pc \in {"send_alice", "accept_alice"} -> 0
      [] pc \in {"send_bob", "accept_bob"} -> 1
      [] pc = "send_carol" -> 2

(* a statement order that goes from bob's delivery to the meeting *)
LineAfterSkipCarol(pc) ==
    CASE pc = "send_alice" -> "send_bob"
      [] pc = "send_bob" -> "start"
      [] pc = "send_carol" -> "start"
      [] pc = "start" -> "accept_alice"
      [] pc = "accept_alice" -> "accept_bob"
      [] pc = "accept_bob" -> "decrypt"
      [] pc = "decrypt" -> "returned"

(* the line after a line that returned *)
LineAfter(pc) ==
    CASE pc = "send_alice" -> "send_bob"
      [] pc = "send_bob" -> "send_carol"
      [] pc = "send_carol" -> "start"
      [] pc = "start" -> "accept_alice"
      [] pc = "accept_alice" -> "accept_bob"
      [] pc = "accept_bob" -> "decrypt"
      [] pc = "decrypt" -> "returned"

(* ---------------------------- channel to the users --------------------- *)
(* what the society reveals to a user: decimal digits of a coordinate *)
Payloads == {<<>>, <<1, 3>>}

Users == {"alice", "bob"}

(* the ECDH key pairs of the society and of the users created so far, the
   blob on its way to a user, the last ecdh_encrypt call, for every
   ecdh_encrypt call the key, what generate_nonce returned and the nonce
   at the front of the blob, whether the blob was altered on the way, and
   the last decrypt_ecdh_message call *)
Channel(keys, wire, sent, seals, tampered, opened) ==
    [keys |-> keys, wire |-> wire, sent |-> sent, seals |-> seals,
     tampered |-> tampered, opened |-> opened]

(* after MpcNetwork::new, no User created *)
ChannelNew(ecdh) ==
    Channel([p \in {"mpc"} |-> ecdh], None, None, <<>>, FALSE, None)

(* ---------------------------- FheUint32 -------------------------------- *)
(* An FheUint32 is modelled by the u32 it encrypts: tfhe's operators on    *)
(* ciphertexts compute the wrapping u32 operation on the cleartexts. A u32 *)
(* is the pair <<high, low>> of its 16-bit halves.                         *)

Half == 65536

U32(n) == <<n \div Half, n % Half>>

U32Max == <<Half - 1, Half - 1>>

Le(a, b) == a[1] < b[1] \/ (a[1] = b[1] /\ a[2] <= b[2])

WrappingAdd(a, b) ==
    LET low == a[2] + b[2]
    IN  <<(a[1] + b[1] + (low \div Half)) % Half, low % Half>>

(* a subtraction that stops at zero instead of wrapping *)
SaturatingSub(a, b) ==
    IF Le(a, b) THEN U32(0)
    ELSE LET low == a[2] - b[2]
             borrow == IF low < 0 THEN 1 ELSE 0
         IN  <<a[1] - b[1] - borrow, (low + Half) % Half>>

WrappingSub(a, b) ==
    LET low == a[2] - b[2]
        borrow == IF low < 0 THEN 1 ELSE 0
    IN  <<(a[1] - b[1] - borrow + 2 * Half) % Half, (low + Half) % Half>>

(* the 32-bit product of two 16-bit halves; y is taken a byte at a time *)
MulHalves(x, y) ==
    LET low == x * (y % 256)
        high == x * (y \div 256)
    IN  WrappingAdd(U32(low),
                    <<((high \div Half) * 256 + ((high % Half) \div 256)) % Half,
                      ((high % Half) % 256) * 256>>)

WrappingMul(a, b) ==
    LET cross == WrappingAdd(MulHalves(a[1], b[2]), MulHalves(a[2], b[1]))
    IN  WrappingAdd(MulHalves(a[2], b[2]), <<cross[2], 0>>)

Bit(a, k) == IF k >= 16 THEN (a[1] \div (2 ^ (k - 16))) % 2 ELSE (a[2] \div (2 ^ k)) % 2

SetBit(a, k) == IF k >= 16 THEN <<a[1] + 2 ^ (k - 16), a[2]>> ELSE <<a[1], a[2] + 2 ^ k>>

RECURSIVE DivRemFrom(_, _, _, _, _)
DivRemFrom(n, d, k, q, r) ==
    IF k < 0 THEN <<q, U32(r)>>
    ELSE LET r2 == 2 * r + Bit(n, k)
         IN  IF r2 >= d THEN DivRemFrom(n, d, k - 1, SetBit(q, k), r2 - d)
                        ELSE DivRemFrom(n, d, k - 1, q, r2)

(* n.div_rem(d) by long division, a bit at a time; the divisors of this     *)
(* program stay below 2^30, so the running remainder is a plain integer.   *)
(* tfhe gives the all-ones quotient and the numerator for a zero divisor.  *)
DivRem(n, d) ==
    IF d = U32(0) THEN <<U32Max, n>>
    ELSE DivRemFrom(n, d[1] * Half + d[2], 31, U32(0), 0)

Div(n, d) == DivRem(n, d)[1]

(* the range Alice sees and the fixed-point scale of a distance *)
PRECISION == 100
FOW_VIEW_RANGE == 11
InitialSqrtGuess == 1000

(* sqrt_newtowns_approx_initial_step: the guess is a clear u32 *)
SqrtNewtownsApproxInitialStep(n, g) == DivRem(WrappingAdd(U32(g), Div(n, U32(g))), U32(2))

(* sqrt_newtowns_approx_iteration *)
SqrtNewtownsApproxIteration(n, g) == DivRem(WrappingAdd(g, Div(n, g)), U32(2))

(* fhe_distance: <<g, rem>> after the two Newton steps *)
FheDistance(x1, y1, x2, y2) ==
    LET dx == WrappingSub(x2, x1)
        dy == WrappingSub(y2, y1)
        dx_sq == WrappingMul(dx, dx)
        dy_sq == WrappingMul(dy, dy)
        distance_sq == WrappingMul(WrappingAdd(dx_sq, dy_sq), U32(PRECISION * PRECISION))
        g == SqrtNewtownsApproxInitialStep(distance_sq, InitialSqrtGuess)[1]
    IN  SqrtNewtownsApproxIteration(distance_sq, g)

(* distance.le(FOW_VIEW_RANGE * PRECISION.pow(2)) *)
RevealPosition(distance) == Le(distance, U32(FOW_VIEW_RANGE * (PRECISION * PRECISION)))

(* the digits of n, most significant first, in the radix of the model's bytes *)
RECURSIVE Digits(_, _)
Digits(n, k) == IF k = 0 THEN <<>> ELSE Append(Digits(n \div 4, k - 1), n % 4)

RECURSIVE FromDigits(_, _)
FromDigits(bytes, k) == IF k = 0 THEN 0 ELSE 4 * FromDigits(bytes, k - 1) + bytes[k]

RECURSIVE StripZeros(_)
StripZeros(bytes) ==
    IF Len(bytes) > 1 /\ bytes[1] = 0 THEN StripZeros(Tail(bytes)) ELSE bytes

(* bincode::serialize of an FheUint32: a fixed number of bytes *)
Serialize(v) == Digits(v[1], 8) \o Digits(v[2], 8)

(* bincode::deserialize: None when the bytes are not an FheUint32 *)
Deserialize(bytes) ==
    IF Len(bytes) # 16 THEN None
    ELSE Some(<<FromDigits(SubSeq(bytes, 1, 8), 8), FromDigits(SubSeq(bytes, 9, 16), 8)>>)

(* u32::to_string().as_bytes(): the digits without leading zeros *)
U32ToString(v) == StripZeros(Serialize(v))

(* from_utf8(..)?.parse::<u32>(): None for the empty string and for a
   number that does not fit *)
ParseU32(bytes) ==
    IF Len(bytes) = 0 \/ Len(bytes) > 16 THEN None
    ELSE Deserialize(Digits(0, 16 - Len(bytes)) \o bytes)

(* ---------------------------- main, Mpc branch ------------------------- *)
(* positions the two players may stand on; main has (2, 2) and (4, 4) *)
Positions == {<<2, 2>>, <<4, 4>>, <<4, 16>>, <<16, 2>>, <<600, 2>>}

(* where main stands, Alice's User, the two positions, the four ciphertexts
   sent to the society, what the mpc_decrypt calls made so far returned, the
   four FheUint32 the society holds, what fhe_distance returned, the
   decrypted comparison, the two blobs for Alice and the pair Alice parsed *)
Game(pc, alice, p1, p2, ciphertexts, results, fhe, distance, should_reveal, for_alice, result) ==
    [pc |-> pc, alice |-> alice, p1 |-> p1, p2 |-> p2, ciphertexts |-> ciphertexts,
     results |-> results, fhe |-> fhe, distance |-> distance,
     should_reveal |-> should_reveal, for_alice |-> for_alice, result |-> result]

(* main is not running *)
NoGame == Game("none", None, None, None, <<>>, <<>>, None, None, None, None, None)

(* ---------------------------- AVS -------------------------------------- *)
(* fhe-sunscreen's AVS node (fhe_sunscreen.rs). A sunscreen Ciphertext of a
   Rational is modelled by the key it was encrypted under and the number it
   holds; the numbers of the model are integers. *)

(* run_contract calls *)
MaxMoves == 3

(* the users' FHE public keys *)
FhePublicKeys == {1, 2}

(* Position values of the moves users submit *)
Moves == {<<1, 0>>, <<0 - 1, 2>>, <<3, 3>>}

(* FheRuntime::encrypt *)
FheEncrypt(value, public_key) == [key |-> public_key, value |-> value]

(* Cipher<Rational> + Cipher<Rational> inside an FHE program run under
   public_key *)
FheAdd(a, b, public_key) == [key |-> public_key, value |-> a.value + b.value]

EncryptedPosition(x, y) == [x |-> x, y |-> y]

(* User::create_move_transaction *)
CreateMoveTransaction(position, fhe_public_key) ==
    EncryptedPosition(FheEncrypt(position[1], fhe_public_key),
                      FheEncrypt(position[2], fhe_public_key))

(* the fhe_program move_position *)
MovePosition(x1, y1, x2, y2, public_key) ==
    <<FheAdd(x1, x2, public_key), FheAdd(y1, y2, public_key)>>

(* hex::encode: one digit for each byte of the model *)
HexEncode(bytes) == [k \in 1..Len(bytes) |-> <<"0", "1", "2", "3">>[bytes[k] + 1]]

(* AVS::get_public_key_hex *)
GetPublicKeyHex(public_key) == HexEncode(ToBytes(public_key))

(* HashMap::insert *)
HashMapInsert(map, key, value) ==
    [k \in DOMAIN map \cup {key} |-> IF k = key THEN value ELSE map[k]]

(* AVS::setup: no position stored *)
AvsSetup == [encrypted_positions |-> [k \in {} |-> 0]]

(* a get_prev_position that forgets what is stored *)
GetPrevPositionFromOrigin(node, public_key) ==
    EncryptedPosition(FheEncrypt(0, public_key), FheEncrypt(0, public_key))

(* AVS::get_prev_position *)
GetPrevPosition(node, public_key) ==
    LET pubkey_str == GetPublicKeyHex(public_key)
    IN  IF pubkey_str \in DOMAIN node.encrypted_positions
        THEN node.encrypted_positions[pubkey_str]
        ELSE EncryptedPosition(FheEncrypt(0, public_key), FheEncrypt(0, public_key))

(* AVS::run_contract: the node after the call and the position returned *)
RunContract(node, new_position, public_key) ==
    LET prev_position == GetPrevPosition(node, public_key)
        results == MovePosition(prev_position.x, prev_position.y,
                                new_position.x, new_position.y, public_key)
        new_encrypted_position == EncryptedPosition(results[1], results[2])
        pubkey_str == GetPublicKeyHex(public_key)
    IN  [node |-> [node EXCEPT !.encrypted_positions =
                       HashMapInsert(@, pubkey_str, new_encrypted_position)],
         returned |-> new_encrypted_position]

(* the node, the run_contract calls made so far (key and move), and the
   last call with what it returned *)
Avs(node, calls, op, returned) ==
    [node |-> node, calls |-> calls, op |-> op, returned |-> returned]

(* fhe-sunscreen is not running *)
NoAvs == None

(* ---------------------------- DHT record keys ---------------------------- *)
(* fhe-sunscreen/src/main.rs.  A string is the sequence of its characters,
   each a one-character string. *)
MaxPeerIdLen == 1

POSITION == <<"P", "O", "S", "I", "T", "I", "O", "N">>
AVS_PUBLIC_KEY == <<"A", "V", "S", "_", "P", "U", "B", "L", "I", "C", "_", "K", "E", "Y">>
ENCRYPTED_FHE_KEY == <<"E", "N", "C", "R", "Y", "P", "T", "E", "D", "_", "F", "H", "E", "_", "K", "E", "Y">>

(* the characters of the base58 text of a PeerId that the model draws from *)
PeerIdChars == {"2"}

(* the one marker that is alphanumeric throughout, as a peer id *)
MarkerWords == {POSITION}

(* PeerId::to_string(): the texts of length up to MaxPeerIdLen, and the
   marker words *)
PeerIds ==
    UNION {[1..len -> PeerIdChars] : len \in 0..MaxPeerIdLen} \cup MarkerWords

(* char::is_alphanumeric on the characters the model writes *)
Alphanumeric ==
    {"A", "B", "C", "D", "E", "F", "H", "I", "K", "L", "N", "O", "P", "R", "S",
     "T", "U", "V", "Y", "2"}

(* the word characters of the regex: the alphanumeric ones and "_" *)
IsWordChar(c) == c \in Alphanumeric \cup {"_"}

(* format!("{POSITION}_{peer_id}") *)
FormPositionKey(peer_id) == POSITION \o <<"_">> \o peer_id

(* format!("{AVS_PUBLIC_KEY}_{peer_id}") *)
FormAvsPublicKey(peer_id) == AVS_PUBLIC_KEY \o <<"_">> \o peer_id

(* format!("{ENCRYPTED_FHE_KEY}_{peer_id}") *)
FormEncryptedFheKey(peer_id) == ENCRYPTED_FHE_KEY \o <<"_">> \o peer_id

(* the literal lit stands in str from position i on *)
LiteralAt(str, lit, i) ==
    /\ i + Len(lit) - 1 <= Len(str)
    /\ \A k \in 1..Len(lit) : str[i + k - 1] = lit[k]

(* the end of the longest run of word characters of str that starts at i *)
WordRunEnd(str, i) ==
    CHOOSE j \in (i - 1)..Len(str) :
        /\ \A k \in i..j : IsWordChar(str[k])
        /\ j = Len(str) \/ ~IsWordChar(str[j + 1])

(* a search that takes the marker without the separator after it *)
CapturesNoSeparator(marker, str) ==
    LET starts == {i \in 1..Len(str) : LiteralAt(str, marker, i)}
    IN  IF starts = {}
        THEN None
        ELSE LET first == CHOOSE i \in starts : \A other \in starts : i <= other
                 from == first + Len(marker)
             IN  Some(SubSeq(str, from, WordRunEnd(str, from)))

(* Regex::new of the marker, "_" and a group peer_id of any number of word
   characters, then captures(str): an unanchored search; the leftmost place
   where the marker and "_" stand, the group being the longest run of word
   characters after it *)
Captures(marker, str) ==
    LET lit == marker \o <<"_">>
        starts == {i \in 1..Len(str) : LiteralAt(str, lit, i)}
    IN  IF starts = {}
        THEN None
        ELSE LET first == CHOOSE i \in starts : \A other \in starts : i <= other
                 from == first + Len(lit)
             IN  Some(SubSeq(str, from, WordRunEnd(str, from)))

IsPositionKey(str) == IsSome(Captures(POSITION, str))

IsAvsPublicKey(str) == IsSome(Captures(AVS_PUBLIC_KEY, str))

IsEncryptedFheKey(str) == IsSome(Captures(ENCRYPTED_FHE_KEY, str))

(* str.split(sep).collect::<Vec<&str>>() *)
RECURSIVE Split(_, _)
Split(str, sep) ==
    LET at == {k \in 1..Len(str) : str[k] = sep}
    IN  IF at = {}
        THEN <<str>>
        ELSE LET first == CHOOSE k \in at : \A other \in at : k <= other
             IN  <<SubSeq(str, 1, first - 1)>>
                     \o Split(SubSeq(str, first + 1, Len(str)), sep)

(* get_peer_id_from_position_key: results[1], an index out of bounds (None
   here) when str has no "_" *)
GetPeerIdFromPositionKey(str) ==
    LET results == Split(str, "_")
    IN  IF Len(results) < 2 THEN None ELSE Some(results[2])

(* the two users the program is started for: cargo run -- <alice/bob> *)
Names == {"alice", "bob"}

Other(name) == IF name = "alice" THEN "bob" ELSE "alice"

(* kad::Record { key, value, publisher, .. }: the value is written by the
   type that was serialised into it *)
Record(key, value, publisher) == [key |-> key, value |-> value, publisher |-> publisher]

(* the commands of GET *)
GetCommands == {AVS_PUBLIC_KEY, POSITION, ENCRYPTED_FHE_KEY}

(* Kademlia::put_record: the record takes the place of the one stored under
   its key *)
PutRecord(store, record) == {r \in store : r.key # record.key} \cup {record}

(* what handle_get_record_result leaves behind *)
Handled(branch, outcome, peer_id, peer_fhe_decryption_keys, peer_public_keys) == [branch |-> branch, outcome |-> outcome, peer_id |-> peer_id, peer_fhe_decryption_keys |-> peer_fhe_decryption_keys, peer_public_keys |-> peer_public_keys]

(* handle_get_record_result(record, user, avs): the maps by their key sets;
   an expect that fails is the outcome "panic" *)
HandleGetRecordResult(record, peer_fhe_decryption_keys, peer_public_keys, avs_peer_id) ==
    LET key_str == record.key
        stop(branch, peer_id) ==
            Handled(branch, "panic", peer_id, peer_fhe_decryption_keys, peer_public_keys)
    IN  IF IsEncryptedFheKey(key_str)
        THEN IF ~IsSome(record.publisher) \/ record.value # "UserKeyPair"
             THEN stop("encrypted_fhe_key", None)
             ELSE Handled("encrypted_fhe_key", "saved", record.publisher,
                          peer_fhe_decryption_keys \cup {Unwrap(record.publisher)},
                          peer_public_keys)
        ELSE IF IsPositionKey(key_str)
        THEN IF record.value # "EncryptedPosition"
             THEN stop("position", None)
             ELSE LET peer_id == GetPeerIdFromPositionKey(key_str)
                  IN  IF ~IsSome(peer_id)
                      THEN stop("position", None)
                      ELSE IF record.publisher = avs_peer_id
                      THEN Handled("position", "decrypt_own_position", peer_id,
                                   peer_fhe_decryption_keys, peer_public_keys)
                      ELSE IF Unwrap(peer_id) \in peer_fhe_decryption_keys
                      THEN Handled("position", "decrypt_peer_position", peer_id,
                                   peer_fhe_decryption_keys, peer_public_keys)
                      ELSE stop("position", peer_id)
        ELSE IF IsAvsPublicKey(key_str)
        THEN IF record.value # "PublicKey"
             THEN stop("avs_public_key", None)
             ELSE Handled("avs_public_key", "saved", None, peer_fhe_decryption_keys,
                          peer_public_keys \cup {key_str})
        ELSE Handled("unhandled", "printed", None, peer_fhe_decryption_keys,
                     peer_public_keys)

(* the two nodes and the records between them: swarm.local_peer_id(),
   avs.peer_id, avs.peer_ids, avs.peer_public_keys and
   user.peer_fhe_decryption_keys of each node, the records Kademlia holds,
   the get_record queries that are out, the events handled so far, and the
   last call of handle_get_record_result *)
Dht(peer_id, avs_peer_id, peer_ids, peer_public_keys, peer_fhe_decryption_keys, store, queries, events, handled) == [peer_id |-> peer_id, avs_peer_id |-> avs_peer_id, peer_ids |-> peer_ids, peer_public_keys |-> peer_public_keys, peer_fhe_decryption_keys |-> peer_fhe_decryption_keys, store |-> store, queries |-> queries, events |-> events, handled |-> handled]

NoDht == None

(* ---------------------------- state machine ---------------------------- *)
(* what the last call was, its arguments, what it returned, and the number of
   collected shares before and after it *)
Last(op, id, arg, outcome, res, delivered, accepted, opened, before, nshares) ==
    [op |-> op, id |-> id, arg |-> arg, outcome |-> outcome, res |-> res,
     delivered |-> delivered, accepted |-> accepted, opened |-> opened,
     before |-> before, nshares |-> nshares]

NoActor == 0 - 1

(* setup_mpc_network: any number of parties and threshold the command line
   takes *)
Init ==
    \E n_actors \in 1..MaxActors, threshold \in 0..MaxThreshold, seed \in Seeds :
        LET society == MpcNetworkNew(n_actors, threshold, seed)
        IN  /\ status = "running"
            /\ pk_set = society.pk_set
            /\ actors = society.actors
            /\ meeting = None
            /\ last = Last("new", NoActor, None, "returned", NoResult, {}, {}, 0, 0, 0)
            /\ reqs = NoRequests
            /\ game = NoGame
            /\ avs = NoAvs
            /\ dht = NoDht
            /\ chan = ChannelNew(society.ecdh)

(* the same society, where Actor::new was handed the secret share of the
   next actor for at most one of the actors (bad = n_actors: for none) *)
InitActors ==
    \E n_actors \in 1..MaxActors, threshold \in 0..MaxThreshold, seed \in Seeds :
        \E bad \in 0..n_actors :
        LET society == MpcNetworkNew(n_actors, threshold, seed)
        IN  /\ status = "running"
            /\ pk_set = society.pk_set
            /\ actors = [id \in DOMAIN society.actors |->
                            IF id = bad
                            THEN ActorNew(id, PublicKeyShare(society.pk_set, id),
                                          SecretKeyShare(society.pk_set, id + 1))
                            ELSE society.actors[id]]
            /\ meeting = None
            /\ last = Last("new", NoActor, None, "returned", NoResult, {}, {}, 0, 0, 0)
            /\ reqs = NoRequests
            /\ game = NoGame
            /\ avs = NoAvs
            /\ dht = NoDht
            /\ chan = ChannelNew(society.ecdh)

Status(outcome) == IF IsPanic(outcome) THEN "panicked" ELSE "running"

DoSendMessage(id, ct) ==
    /\ status = "running"
    /\ actors' = SendMessage(actors, id, ct)
    /\ last' = Last("send_message", id, Some(ct), "returned", NoResult, {}, {}, 0, 0, 0)
    /\ UNCHANGED <<status, pk_set, meeting, reqs, chan, game, avs, dht>>

DoStartDecryptionMeeting ==
    /\ status = "running"
    /\ meeting' = Some(StartDecryptionMeeting)
    /\ last' = Last("start_decryption_meeting", NoActor, None, "returned", NoResult,
                    {}, {}, 1, 0, 0)
    /\ UNCHANGED <<status, pk_set, actors, reqs, chan, game, avs, dht>>

DoAcceptDecryptionShare(id) ==
    /\ status = "running"
    /\ IsSome(meeting)
    /\ LET a == AcceptDecryptionShare(Unwrap(meeting), actors[id])
       IN  /\ meeting' = Some(a.meeting)
           /\ actors' = [actors EXCEPT ![id] = a.actor]
           /\ status' = Status(a.outcome)
           /\ last' = Last("accept_decryption_share", id, actors[id].msg_inbox,
                           a.outcome, NoResult, {}, {}, 0,
                           Len(Unwrap(meeting).dec_shares),
                           Len(a.meeting.dec_shares))
    /\ UNCHANGED <<pk_set, reqs, chan, game, avs, dht>>

DoDecryptMessage ==
    /\ status = "running"
    /\ IsSome(meeting)
    /\ LET d == DecryptMessage(Unwrap(meeting))
       IN  /\ status' = Status(d.outcome)
           /\ last' = Last("decrypt_message", NoActor, Unwrap(meeting).ciphertext,
                           d.outcome, d.res, {}, {}, 0,
                           Len(Unwrap(meeting).dec_shares),
                           Len(Unwrap(meeting).dec_shares))
    /\ UNCHANGED <<pk_set, actors, meeting, reqs, chan, game, avs, dht>>

DoMpcDecrypt(ct) ==
    /\ status = "running"
    /\ LET r == MpcDecrypt(actors, ct)
       IN  /\ actors' = r.actors
           /\ status' = Status(r.outcome)
           /\ last' = Last("mpc_decrypt", NoActor, Some(ct), r.outcome, r.res,
                           r.delivered, r.accepted, r.opened, 0, r.nshares)
    /\ UNCHANGED <<pk_set, meeting, reqs, chan, game, avs, dht>>

Next ==
    \/ \E id \in ActorIds, ct \in Ciphertexts : DoSendMessage(id, ct)
    \/ DoStartDecryptionMeeting
    \/ \E id \in ActorIds : DoAcceptDecryptionShare(id)
    \/ DoDecryptMessage
    \/ \E ct \in Ciphertexts : DoMpcDecrypt(ct)

Spec == Init /\ [][Next]_vars

SpecActors == InitActors /\ [][Next]_vars

NextMalformed ==
    \/ Next
    \/ \E id \in ActorIds, ct \in MalformedCiphertexts : DoSendMessage(id, ct)

(* the society when ciphertexts that fail Ciphertext::verify are delivered
   as well *)
SpecMalformed == Init /\ [][NextMalformed]_vars

(* mpc_decrypt entered: the three get_actor look-ups *)
DoCall(r, ct) ==
    /\ status = "running"
    /\ reqs[r].pc = "idle"
    /\ LET outcome == IF {0, 1, 2} \subseteq ActorIds THEN "returned" ELSE "panic_actor"
       IN  /\ status' = Status(outcome)
           /\ reqs' = [reqs EXCEPT ![r] =
                         Request(IF IsPanic(outcome) THEN "idle" ELSE "send_alice",
                                 Some(ct), None, NoResult)]
           /\ last' = Last("get_actor", NoActor, Some(ct), outcome, NoResult,
                           {}, {}, 0, 0, 0)
    /\ UNCHANGED <<pk_set, actors, meeting, chan, game, avs, dht>>

(* one of the three send_message lines *)
DoDeliver(r) ==
    /\ status = "running"
    /\ reqs[r].pc \in {"send_alice", "send_bob", "send_carol"}
    /\ LET id == ActorOfLine(reqs[r].pc)
       IN  /\ actors' = SendMessage(actors, id, Unwrap(reqs[r].ciphertext))
           /\ last' = Last("send_message", id, reqs[r].ciphertext, "returned", NoResult,
                           {}, {}, 0, 0, 0)
    /\ reqs' = [reqs EXCEPT ![r].pc = LineAfter(@)]
    /\ UNCHANGED <<status, pk_set, meeting, chan, game, avs, dht>>

(* let mut meeting = network.start_decryption_meeting() *)
DoOpen(r) ==
    /\ status = "running"
    /\ reqs[r].pc = "start"
    /\ reqs' = [reqs EXCEPT ![r].pc = LineAfter(@),
                            ![r].meeting = Some(StartDecryptionMeeting)]
    /\ last' = Last("start_decryption_meeting", NoActor, None, "returned", NoResult,
                    {}, {}, 1, 0, 0)
    /\ UNCHANGED <<status, pk_set, actors, meeting, chan, game, avs, dht>>

(* one of the two meeting.accept_decryption_share lines *)
DoAccept(r) ==
    /\ status = "running"
    /\ reqs[r].pc \in {"accept_alice", "accept_bob"}
    /\ LET id == ActorOfLine(reqs[r].pc)
           a == AcceptDecryptionShare(Unwrap(reqs[r].meeting), actors[id])
       IN  /\ actors' = [actors EXCEPT ![id] = a.actor]
           /\ status' = Status(a.outcome)
           /\ reqs' = [reqs EXCEPT ![r].pc = IF IsPanic(a.outcome) THEN @ ELSE LineAfter(@),
                                   ![r].meeting = Some(a.meeting)]
           /\ last' = Last("accept_decryption_share", id, actors[id].msg_inbox,
                           a.outcome, NoResult, {}, {}, 0,
                           Len(Unwrap(reqs[r].meeting).dec_shares),
                           Len(a.meeting.dec_shares))
    /\ UNCHANGED <<pk_set, meeting, chan, game, avs, dht>>

(* meeting.decrypt_message()?, Ok(..): the value goes to the caller and the
   local meeting goes out of scope *)
DoReturn(r) ==
    /\ status = "running"
    /\ reqs[r].pc = "decrypt"
    /\ LET d == DecryptMessage(Unwrap(reqs[r].meeting))
       IN  /\ status' = Status(d.outcome)
           /\ reqs' = [reqs EXCEPT ![r] =
                         IF IsPanic(d.outcome) THEN @
                         ELSE Request("returned", @.ciphertext, None, d.res)]
           /\ last' = Last("decrypt_message", NoActor, Unwrap(reqs[r].meeting).ciphertext,
                           d.outcome, d.res, {}, {}, 0,
                           Len(Unwrap(reqs[r].meeting).dec_shares),
                           Len(Unwrap(reqs[r].meeting).dec_shares))
    /\ UNCHANGED <<pk_set, actors, meeting, chan, game, avs, dht>>

NextRequests ==
    \/ \E r \in Requests, ct \in Ciphertexts : DoCall(r, ct)
    \/ \E r \in Requests : DoDeliver(r)
    \/ \E r \in Requests : DoOpen(r)
    \/ \E r \in Requests : DoAccept(r)
    \/ \E r \in Requests : DoReturn(r)

(* two callers whose mpc_decrypt calls advance line by line, in any order *)
SpecRequests == Init /\ [][NextRequests]_vars

(* the same, where a statement that can run does run: mpc_decrypt is
   straight-line code without a wait *)
FairRequests == SpecRequests /\ WF_vars(NextRequests)

(* mpc_decrypt entered when no other call is running: a caller that has
   returned may call again *)
DoCallInTurn(r, ct) ==
    /\ status = "running"
    /\ \A o \in Requests : reqs[o].pc \in {"idle", "returned"}
    /\ LET outcome == IF {0, 1, 2} \subseteq ActorIds THEN "returned" ELSE "panic_actor"
       IN  /\ status' = Status(outcome)
           /\ reqs' = [reqs EXCEPT ![r] =
                         Request(IF IsPanic(outcome) THEN "idle" ELSE "send_alice",
                                 Some(ct), None, NoResult)]
           /\ last' = Last("get_actor", NoActor, Some(ct), outcome, NoResult,
                           {}, {}, 0, 0, 0)
    /\ UNCHANGED <<pk_set, actors, meeting, chan, game, avs, dht>>

NextSequence ==
    \/ \E r \in Requests, ct \in Ciphertexts : DoCallInTurn(r, ct)
    \/ \E r \in Requests : DoDeliver(r)
    \/ \E r \in Requests : DoOpen(r)
    \/ \E r \in Requests : DoAccept(r)
    \/ \E r \in Requests : DoReturn(r)

(* mpc_decrypt calls one after another, as in main: each call runs to its
   end before the next one starts *)
SpecSequence == Init /\ [][NextSequence]_vars

(* mpc_network.publish_public_key(): the key goes to the caller *)
DoPublishPublicKey ==
    /\ status = "running"
    /\ last' = Last("publish_public_key", NoActor, None, "returned",
                    Ok(<<PublishPublicKey>>), {}, {}, 0, 0, 0)
    /\ UNCHANGED <<status, pk_set, actors, meeting, reqs, chan, game, avs, dht>>

(* mpc_network.ecdh_encrypt(msg, target_public_key): the blob goes to the
   caller *)
DoNetworkEcdhEncrypt(target_public_key, msg, nonce) ==
    /\ status = "running"
    /\ last' = Last("ecdh_encrypt", NoActor, Some(msg), "returned",
                    Ok(NetworkEcdhEncrypt(chan.keys["mpc"], msg, target_public_key, nonce)),
                    {}, {}, 0, 0, 0)
    /\ UNCHANGED <<status, pk_set, actors, meeting, reqs, chan, game, avs, dht>>

(* the public keys ecdh_encrypt is given here *)
EcdhPublicKeys == {GenerateEcdhKeys(sk).pk : sk \in {1, 4}}

NextCalls ==
    \/ NextRequests
    \/ DoPublishPublicKey
    \/ \E target_public_key \in EcdhPublicKeys :
          DoNetworkEcdhEncrypt(target_public_key, <<1, 3>>, <<0, 1, 2>>)

(* mpc_decrypt calls advancing line by line and the two calls that only
   read the society, with at most one actor holding a mismatched secret
   share *)
SpecCalls == InitActors /\ [][NextCalls]_vars

(* setup_mpc_network with 3 actors and threshold 1, then User::new for
   alice and bob *)
InitChannel ==
    \E seed \in Seeds, sk_alice \in Scalars, sk_bob \in Scalars :
        LET society == MpcNetworkNew(3, 1, seed)
        IN  /\ status = "running"
            /\ pk_set = society.pk_set
            /\ actors = society.actors
            /\ meeting = None
            /\ last = Last("new", NoActor, None, "returned", NoResult, {}, {}, 0, 0, 0)
            /\ reqs = NoRequests
            /\ game = NoGame
            /\ avs = NoAvs
            /\ dht = NoDht
            /\ chan = Channel([p \in {"mpc"} \cup Users |->
                                  CASE p = "mpc" -> society.ecdh
                                    [] p = "alice" -> GenerateEcdhKeys(sk_alice)
                                    [] p = "bob" -> GenerateEcdhKeys(sk_bob)],
                              None, None, <<>>, FALSE, None)

(* mpc_network.ecdh_encrypt(msg, &user.ecdh_pubkey), the blob sent off *)
DoEcdhEncrypt(to, msg, nonce) ==
    /\ status = "running"
    /\ Len(chan.seals) < MaxSeals
    /\ LET shared_secret == ComputeSharedSecret(chan.keys["mpc"].sk, chan.keys[to].pk)
           blob == NetworkEcdhEncrypt(chan.keys["mpc"], msg, chan.keys[to].pk, nonce)
       IN  chan' = Channel(chan.keys, Some(blob),
                           Some([to |-> to, msg |-> msg, nonce |-> nonce, blob |-> blob]),
                           Append(chan.seals, [key |-> shared_secret, draw |-> nonce,
                                               nonce |-> SubSeq(blob, 1, NonceLen)]),
                           FALSE, None)
    /\ UNCHANGED <<status, pk_set, actors, meeting, last, reqs, game, avs, dht>>

(* one byte of the blob is changed on the way *)
DoTamper(k, byte) ==
    /\ status = "running"
    /\ IsSome(chan.wire) /\ ~chan.tampered /\ chan.opened = None
    /\ k \in 1..Len(Unwrap(chan.wire))
    /\ byte # Unwrap(chan.wire)[k]
    /\ chan' = [chan EXCEPT !.wire = Some([Unwrap(@) EXCEPT ![k] = byte]),
                            !.tampered = TRUE]
    /\ UNCHANGED <<status, pk_set, actors, meeting, last, reqs, game, avs, dht>>

(* user.decrypt_ecdh_message(&blob, &mpc_network.ecdh_pub_key) *)
DoDecryptEcdhMessage(by) ==
    /\ status = "running"
    /\ IsSome(chan.wire)
    /\ LET d == DecryptEcdhMessage(chan.keys[by], Unwrap(chan.wire), chan.keys["mpc"].pk)
       IN  /\ status' = Status(d.outcome)
           /\ chan' = [chan EXCEPT !.opened =
                         Some([by |-> by, outcome |-> d.outcome, bytes |-> d.bytes])]
    /\ UNCHANGED <<pk_set, actors, meeting, last, reqs, game, avs, dht>>

MaxBlobLen == NonceLen + 2 + TagLen

NextChannel ==
    \/ \E to \in Users, msg \in Payloads, nonce \in Nonces : DoEcdhEncrypt(to, msg, nonce)
    \/ \E k \in 1..MaxBlobLen, byte \in 0..3 : DoTamper(k, byte)
    \/ \E by \in Users : DoDecryptEcdhMessage(by)

(* the society wraps payloads for the users, who open what arrives *)
SpecChannel == InitChannel /\ [][NextChannel]_vars

(* ---------------------------- main, Mpc branch: steps ------------------ *)
(* main up to the point where the four coordinates are on their way to the
   society: the society is built from the command line's threshold and
   number_of_parties, Alice is a new User, each coordinate is an FheUint32
   serialized and encrypted under the society's key (each with its own
   randomness) *)
InitMain ==
    \E n_actors \in 1..MaxActors, threshold \in 0..MaxThreshold, seed \in Seeds,
       sk_alice \in Scalars, p1 \in Positions, p2 \in Positions :
        LET society == MpcNetworkNew(n_actors, threshold, seed)
            mpc_pub_key == PublicKey(society.pk_set)
        IN  /\ status = "running"
            /\ pk_set = society.pk_set
            /\ actors = society.actors
            /\ meeting = None
            /\ last = Last("new", NoActor, None, "returned", NoResult, {}, {}, 0, 0, 0)
            /\ reqs = NoRequests
            /\ chan = ChannelNew(society.ecdh)
            /\ avs = NoAvs
            /\ dht = NoDht
            /\ game = Game("sent", Some(GenerateEcdhKeys(sk_alice)), Some(p1), Some(p2),
                           << Encrypt(mpc_pub_key, Serialize(U32(p1[1])), 1),
                              Encrypt(mpc_pub_key, Serialize(U32(p1[2])), 2),
                              Encrypt(mpc_pub_key, Serialize(U32(p2[1])), 3),
                              Encrypt(mpc_pub_key, Serialize(U32(p2[2])), 4) >>,
                           <<>>, None, None, None, None, None)

(* main.rs 130-140: the next of the four mpc_network.mpc_decrypt(..)? calls;
   a panic or an Err ends main, and after the fourth call the four results
   go through bincode::deserialize(..)? *)
DoMainMpcDecrypt ==
    /\ status = "running"
    /\ game.pc = "sent"
    /\ LET k == Len(game.results) + 1
           r == MpcDecrypt(actors, game.ciphertexts[k])
       IN  /\ actors' = r.actors
           /\ status' = Status(r.outcome)
           /\ last' = Last("mpc_decrypt", NoActor, Some(game.ciphertexts[k]), r.outcome,
                           r.res, r.delivered, r.accepted, r.opened, 0, r.nshares)
           /\ game' =
                 IF IsPanic(r.outcome) \/ r.res.tag # "Ok"
                 THEN [game EXCEPT !.pc = "failed"]
                 ELSE IF k < Len(game.ciphertexts)
                 THEN [game EXCEPT !.results = Append(@, r.res.bytes)]
                 ELSE LET results == Append(game.results, r.res.bytes)
                          fhe == [j \in 1..Len(results) |-> Deserialize(results[j])]
                      IN  IF \A j \in 1..Len(fhe) : IsSome(fhe[j])
                          THEN [game EXCEPT !.pc = "decrypted", !.results = results,
                                            !.fhe = Some([j \in 1..Len(fhe) |->
                                                             Unwrap(fhe[j])])]
                          ELSE [game EXCEPT !.pc = "failed", !.results = results]
    /\ UNCHANGED <<pk_set, meeting, reqs, chan, avs, dht>>

(* main.rs 142-151: the distance and the comparison with the view range *)
DoMainCompare ==
    /\ status = "running"
    /\ game.pc = "decrypted"
    /\ LET fhe == Unwrap(game.fhe)
           distance == FheDistance(fhe[1], fhe[2], fhe[3], fhe[4])
       IN  game' = [game EXCEPT !.pc = "compared",
                                !.distance = Some(distance),
                                !.should_reveal = Some(RevealPosition(distance[1]))]
    /\ UNCHANGED <<status, pk_set, actors, meeting, last, reqs, chan, avs, dht>>

(* main.rs 162-170: both revealed values are decrypted from fhe_x2 *)
DoMainReveal(nonce_x, nonce_y) ==
    /\ status = "running"
    /\ game.pc = "compared"
    /\ Unwrap(game.should_reveal)
    /\ LET fhe_x2 == Unwrap(game.fhe)[3]
           revealed_x2 == fhe_x2
           revealed_y2 == fhe_x2
           alice == Unwrap(game.alice)
           x2_for_alice == NetworkEcdhEncrypt(chan.keys["mpc"], U32ToString(revealed_x2),
                                              alice.pk, nonce_x)
           y2_for_alice == NetworkEcdhEncrypt(chan.keys["mpc"], U32ToString(revealed_y2),
                                              alice.pk, nonce_y)
       IN  game' = [game EXCEPT !.pc = "revealed",
                                !.for_alice = Some(<<x2_for_alice, y2_for_alice>>)]
    /\ UNCHANGED <<status, pk_set, actors, meeting, last, reqs, chan, avs, dht>>

(* main.rs 182-184 *)
DoMainKeepHidden ==
    /\ status = "running"
    /\ game.pc = "compared"
    /\ ~Unwrap(game.should_reveal)
    /\ game' = [game EXCEPT !.pc = "hidden"]
    /\ UNCHANGED <<status, pk_set, actors, meeting, last, reqs, chan, avs, dht>>

(* main.rs 172-181: Alice opens both blobs, parses them and the program
   asserts that each is 4 *)
DoMainReceive ==
    /\ status = "running"
    /\ game.pc = "revealed"
    /\ LET alice == Unwrap(game.alice)
           for_alice == Unwrap(game.for_alice)
           x2 == DecryptEcdhMessage(alice, for_alice[1], chan.keys["mpc"].pk)
           y2 == DecryptEcdhMessage(alice, for_alice[2], chan.keys["mpc"].pk)
           x2_result == ParseU32(Unwrap(x2.bytes))
           y2_result == ParseU32(Unwrap(y2.bytes))
       IN  IF IsPanic(x2.outcome) \/ IsPanic(y2.outcome)
           THEN /\ status' = "panicked"
                /\ game' = [game EXCEPT !.pc = "failed"]
           ELSE IF ~IsSome(x2_result) \/ ~IsSome(y2_result)
           THEN /\ status' = status
                /\ game' = [game EXCEPT !.pc = "failed"]
           ELSE /\ status' = IF Unwrap(x2_result) = U32(4) /\ Unwrap(y2_result) = U32(4)
                             THEN status ELSE Status("panic_assert")
                /\ game' = [game EXCEPT !.pc = "received",
                                        !.result = Some(<<Unwrap(x2_result),
                                                          Unwrap(y2_result)>>)]
    /\ UNCHANGED <<pk_set, actors, meeting, last, reqs, chan, avs, dht>>

NextMain ==
    \/ DoMainMpcDecrypt
    \/ DoMainCompare
    \/ \E nonce_x \in Nonces, nonce_y \in Nonces : DoMainReveal(nonce_x, nonce_y)
    \/ DoMainKeepHidden
    \/ DoMainReceive

SpecMain == InitMain /\ [][NextMain]_vars

(* coordinates from the whole range of a u32 *)
WideXs == {U32(2), U32(16), <<32768, 0>>, U32Max}
WideYs == {U32(0), U32(4), <<1, 4464>>, U32Max}

(* four FheUint32 coordinates at the server, fhe_distance not yet called *)
InitDistance ==
    \E x1 \in WideXs, y1 \in WideYs, x2 \in WideXs, y2 \in WideYs :
        LET society == MpcNetworkNew(3, 1, 1)
        IN  /\ status = "running"
            /\ pk_set = society.pk_set
            /\ actors = society.actors
            /\ meeting = None
            /\ last = Last("new", NoActor, None, "returned", NoResult, {}, {}, 0, 0, 0)
            /\ reqs = NoRequests
            /\ chan = ChannelNew(society.ecdh)
            /\ avs = NoAvs
            /\ dht = NoDht
            /\ game = Game("points", None, None, None, <<>>, <<>>,
                           Some(<<x1, y1, x2, y2>>), None, None, None, None)

(* fhe_distance(&x1, &y1, &x2, &y2) *)
DoFheDistance ==
    /\ status = "running"
    /\ game.pc = "points"
    /\ LET fhe == Unwrap(game.fhe)
       IN  game' = [game EXCEPT !.pc = "distance",
                                !.distance = Some(FheDistance(fhe[1], fhe[2], fhe[3], fhe[4]))]
    /\ UNCHANGED <<status, pk_set, actors, meeting, last, reqs, chan, avs, dht>>

NextDistance == DoFheDistance

SpecDistance == InitDistance /\ [][NextDistance]_vars

(* ---------------------------- AVS: steps -------------------------------- *)
InitAvs ==
    LET society == MpcNetworkNew(3, 1, 1)
    IN  /\ status = "running"
        /\ pk_set = society.pk_set
        /\ actors = society.actors
        /\ meeting = None
        /\ last = Last("new", NoActor, None, "returned", NoResult, {}, {}, 0, 0, 0)
        /\ reqs = NoRequests
        /\ chan = ChannelNew(society.ecdh)
        /\ game = NoGame
        /\ avs = Avs(AvsSetup, <<>>, "setup", None)
        /\ dht = NoDht

(* a user moves: create_move_transaction, then run_contract under the
   user's own key *)
DoRunContract(public_key, position) ==
    /\ Len(avs.calls) < MaxMoves
    /\ LET r == RunContract(avs.node, CreateMoveTransaction(position, public_key), public_key)
       IN  avs' = Avs(r.node, Append(avs.calls, <<public_key, position>>),
                      "run_contract", Some(r.returned))
    /\ UNCHANGED <<status, pk_set, actors, meeting, last, reqs, chan, game, dht>>

DoGetPrevPosition(public_key) ==
    /\ avs' = Avs(avs.node, avs.calls, "get_prev_position",
                  Some(GetPrevPosition(avs.node, public_key)))
    /\ UNCHANGED <<status, pk_set, actors, meeting, last, reqs, chan, game, dht>>

NextAvs ==
    \/ \E public_key \in FhePublicKeys, position \in Moves :
          DoRunContract(public_key, position)
    \/ \E public_key \in FhePublicKeys : DoGetPrevPosition(public_key)

SpecAvs == InitAvs /\ [][NextAvs]_vars

(* ---------------------------- DHT: steps --------------------------------- *)
MaxEvents == 6

(* two nodes with new identities, before their first event *)
InitDht ==
    LET society == MpcNetworkNew(3, 1, 1)
    IN  /\ status = "running"
        /\ pk_set = society.pk_set
        /\ actors = society.actors
        /\ meeting = None
        /\ last = Last("new", NoActor, None, "returned", NoResult, {}, {}, 0, 0, 0)
        /\ reqs = NoRequests
        /\ chan = ChannelNew(society.ecdh)
        /\ game = NoGame
        /\ avs = NoAvs
        /\ \E alice \in PeerIds : \E bob \in PeerIds \ {alice} :
              dht = Dht([name \in Names |-> IF name = "alice" THEN alice ELSE bob],
                        [name \in Names |-> None], [name \in Names |-> <<>>],
                        [name \in Names |-> {}], [name \in Names |-> {}],
                        {}, {}, 0, None)

(* the keys the two nodes can ask for *)
RecordKeys ==
    UNION {{FormAvsPublicKey(p), FormPositionKey(p), FormEncryptedFheKey(p)} : p \in PeerIds}

(* an event of the node's loop is taken *)
DhtEvent == status = "running" /\ dht.events < MaxEvents

(* SwarmEvent::NewListenAddr: avs.set_peer_id(Some(local_peer_id)) *)
DoNewListenAddr(n) ==
    /\ DhtEvent
    /\ dht' = [dht EXCEPT !.avs_peer_id[n] = Some(dht.peer_id[n]),
                          !.events = @ + 1]
    /\ UNCHANGED <<status, pk_set, actors, meeting, last, reqs, chan, game, avs>>

(* handle_connection_established at node n, the remote peer being the other
   node *)
DoConnectionEstablished(n) ==
    /\ DhtEvent
    /\ LET local_peer_id == dht.peer_id[n]
           peer_id == dht.peer_id[Other(n)]
           key == FormAvsPublicKey(local_peer_id)
       IN  dht' = [dht EXCEPT
                     !.store = PutRecord(@, Record(key, "PublicKey", None)),
                     !.peer_ids[n] = [name \in Names |-> dht.peer_id[name]],
                     !.queries = @ \cup {<<n, FormAvsPublicKey(peer_id)>>},
                     !.events = @ + 1]
    /\ UNCHANGED <<status, pk_set, actors, meeting, last, reqs, chan, game, avs>>

(* handle_input_line, "GET <cmd> <name>" *)
DoInputGet(n, cmd, name) ==
    /\ DhtEvent
    /\ IF name \notin DOMAIN dht.peer_ids[n]
       THEN /\ status' = "panicked"
            /\ dht' = [dht EXCEPT !.events = @ + 1]
       ELSE LET peer_id == dht.peer_ids[n][name]
                key == IF cmd = AVS_PUBLIC_KEY THEN FormAvsPublicKey(peer_id)
                       ELSE IF cmd = POSITION THEN FormPositionKey(peer_id)
                       ELSE FormEncryptedFheKey(peer_id)
            IN  /\ status' = status
                /\ dht' = [dht EXCEPT !.queries = @ \cup {<<n, key>>},
                                      !.events = @ + 1]
    /\ UNCHANGED <<pk_set, actors, meeting, last, reqs, chan, game, avs>>

(* handle_input_line, "SHARE_KEY <name>", typed by user n *)
DoInputShareKey(n) ==
    /\ DhtEvent
    /\ IF Other(n) \notin DOMAIN dht.peer_ids[n]
       THEN /\ status' = "panicked"
            /\ dht' = [dht EXCEPT !.events = @ + 1]
       ELSE LET local_peer_id == dht.peer_id[n]
                peer_id == dht.peer_ids[n][Other(n)]
            IN  /\ status' = status
                /\ IF FormAvsPublicKey(peer_id) \notin dht.peer_public_keys[n]
                   THEN dht' = [dht EXCEPT !.events = @ + 1]
                   ELSE dht' = [dht EXCEPT
                                  !.store = PutRecord(@, Record(FormEncryptedFheKey(local_peer_id),
                                                                "UserKeyPair", Some(local_peer_id))),
                                  !.events = @ + 1]
    /\ UNCHANGED <<pk_set, actors, meeting, last, reqs, chan, game, avs>>

(* handle_input_line, "MOVE <name> <position>" *)
DoInputMove(n, name) ==
    /\ DhtEvent
    /\ IF name \notin DOMAIN dht.peer_ids[n]
       THEN /\ status' = "panicked"
            /\ dht' = [dht EXCEPT !.events = @ + 1]
       ELSE LET local_peer_id == dht.peer_id[n]
                key_str == FormPositionKey(dht.peer_ids[n][name])
            IN  /\ status' = status
                /\ dht' = [dht EXCEPT
                             !.store = PutRecord(@, Record(key_str, "EncryptedPosition",
                                                           Some(local_peer_id))),
                             !.events = @ + 1]
    /\ UNCHANGED <<pk_set, actors, meeting, last, reqs, chan, game, avs>>

(* QueryResult::GetRecord(Ok(FoundRecord)): handle_get_record_result *)
DoGetRecordResult(n, key) ==
    /\ DhtEvent
    /\ <<n, key>> \in dht.queries
    /\ \E record \in dht.store :
          /\ record.key = key
          /\ LET h == HandleGetRecordResult(record, dht.peer_fhe_decryption_keys[n],
                                            dht.peer_public_keys[n], dht.avs_peer_id[n])
             IN  /\ status' = IF h.outcome = "panic" THEN "panicked" ELSE status
                 /\ dht' = [dht EXCEPT
                              !.peer_fhe_decryption_keys[n] = h.peer_fhe_decryption_keys,
                              !.peer_public_keys[n] = h.peer_public_keys,
                              !.queries = @ \ {<<n, key>>},
                              !.events = @ + 1,
                              !.handled = Some([node |-> n, record |-> record,
                                                branch |-> h.branch, outcome |-> h.outcome,
                                                peer_id |-> h.peer_id])]
    /\ UNCHANGED <<pk_set, actors, meeting, last, reqs, chan, game, avs>>

(* QueryResult::GetRecord(Err): no record under the key *)
DoGetRecordFailed(n, key) ==
    /\ DhtEvent
    /\ <<n, key>> \in dht.queries
    /\ \A record \in dht.store : record.key # key
    /\ dht' = [dht EXCEPT !.queries = @ \ {<<n, key>>}, !.events = @ + 1]
    /\ UNCHANGED <<status, pk_set, actors, meeting, last, reqs, chan, game, avs>>

NextDht ==
    \/ \E n \in Names : DoNewListenAddr(n)
    \/ \E n \in Names : DoConnectionEstablished(n)
    \/ \E n \in Names, cmd \in GetCommands, name \in Names : DoInputGet(n, cmd, name)
    \/ \E n \in Names : DoInputShareKey(n)
    \/ \E n \in Names, name \in Names : DoInputMove(n, name)
    \/ \E n \in Names, key \in RecordKeys : DoGetRecordResult(n, key)
    \/ \E n \in Names, key \in RecordKeys : DoGetRecordFailed(n, key)

SpecDht == InitDht /\ [][NextDht]_vars

(* ---------------------------- properties ------------------------------- *)
NumActors == Cardinality(ActorIds)

(* 0 < t < n *)
ValidSociety == 0 < Threshold(pk_set) /\ Threshold(pk_set) < NumActors

(* the messages whose encryption under the society key is ct *)
PlaintextsOf(ct) ==
    {in[1] : in \in {i \in ClientInputs : Encrypt(PublishPublicKey, i[1], i[2]) = ct}}

InsufficientShares == Err("decryption failed")

Decrypted == last.op = "decrypt_message"
Accepted == last.op = "accept_decryption_share"
Coordinated == last.op = "mpc_decrypt"

(* C1: in a society with 0 < t < n, decrypt_message on a meeting that holds
   the shares of t + 1 or more distinct actors returns exactly the message
   that was encrypted, and on a meeting that holds the shares of t or fewer
   actors (none included) it returns the InsufficientShares error. *)
C1_QuorumDecrypts ==
    (ValidSociety /\ Decrypted) =>
        IF last.nshares >= Threshold(pk_set) + 1
        THEN /\ status = "running"
             /\ last.res.tag = "Ok"
             /\ last.res.bytes \in PlaintextsOf(Unwrap(last.arg))
        ELSE /\ status = "running"
             /\ last.res = InsufficientShares

(* the relation the pairing check certifies: the share is U raised to the
   secret that pk_share commits to *)
VerifiesAgainst(share, pk_share, ct) == share = Mod(pk_share * ct.u)

(* C2: every collected share verifies against the public share of the actor
   it is keyed by and against the meeting's ciphertext, and an accept whose
   share fails verification inserts nothing. *)
C2_SharesVerified ==
    IsSome(meeting) =>
        \A k \in 1..Len(Unwrap(meeting).dec_shares) :
            LET e == Unwrap(meeting).dec_shares[k]
            IN  /\ IsSome(Unwrap(meeting).ciphertext)
                /\ e[1] \in ActorIds
                /\ VerifiesAgainst(e[2], actors[e[1]].pk_share,
                                   Unwrap(Unwrap(meeting).ciphertext))

C2_InvalidNotInserted ==
    (Accepted' /\ last'.outcome = "invalid") =>
        Unwrap(meeting').dec_shares = Unwrap(meeting).dec_shares

(* C2: both parts, the invariant on the collected shares and the step that
   rejects a share *)
C2_VerifiedBeforeAccepted == []C2_SharesVerified /\ [][C2_InvalidNotInserted]_vars

(* one valid share, then a verification-failing one from another actor:
   the count is 1 *)
C2_Witness ==
    /\ Accepted /\ last.outcome = "invalid"
    /\ last.before = 1 /\ last.nshares = 1
    /\ last.id \notin MapKeys(Unwrap(meeting).dec_shares)

(* C3: every collected share was computed against the meeting's ciphertext;
   an accept for an actor whose pending ciphertext differs from the bound
   one returns without changing the meeting and without aborting. *)
C3_SharesOfBoundCiphertext ==
    IsSome(meeting) =>
        \A k \in 1..Len(Unwrap(meeting).dec_shares) :
            LET e == Unwrap(meeting).dec_shares[k]
            IN  /\ IsSome(Unwrap(meeting).ciphertext)
                /\ Some(e[2]) = DecryptShare(actors[e[1]].sk_share,
                                             Unwrap(Unwrap(meeting).ciphertext))

C3_MismatchDropped ==
    (Accepted' /\ IsSome(Unwrap(meeting).ciphertext) /\ IsSome(actors[last'.id].msg_inbox)
        /\ actors[last'.id].msg_inbox # Unwrap(meeting).ciphertext) =>
            /\ meeting' = meeting
            /\ status' = "running"
            /\ last'.outcome = "mismatch"

(* C3: both parts, the invariant on the collected shares and the step that
   drops a contribution for another ciphertext *)
C3_NeverMixes == []C3_SharesOfBoundCiphertext /\ [][C3_MismatchDropped]_vars

C3_Witness ==
    /\ Accepted /\ last.outcome = "mismatch"
    /\ last.nshares >= 1
    /\ last.arg # Unwrap(meeting).ciphertext

(* C4: decrypt_message on a meeting with fewer than t + 1 collected shares,
   a meeting that has accepted no actor included, returns the
   InsufficientShares error as a value and leaves the meeting as it was. *)
C4_InsufficientIsAnError ==
    (Decrypted /\ last.nshares < Threshold(pk_set) + 1) =>
        /\ status = "running"
        /\ last.res = InsufficientShares

(* res is Ok of the message that was encrypted to ct *)
DecryptsTo(res, ct) ==
    \A in \in ClientInputs :
        Encrypt(PublishPublicKey, in[1], in[2]) = ct => res = Ok(in[1])

(* C5 as claimed: in every society with 0 < t < n, mpc_decrypt of the
   encryption of m returns Ok(m). *)
C5_RoundTripAnySociety ==
    (ValidSociety /\ Coordinated) =>
        /\ status = "running"
        /\ DecryptsTo(last.res, Unwrap(last.arg))

(* C5, amended: in every society of at least 3 actors with threshold 1,
   mpc_decrypt of the encryption of m, the empty string included, returns
   Ok(m). *)
C5_RoundTrip ==
    (NumActors >= 3 /\ Threshold(pk_set) = 1 /\ Coordinated) =>
        /\ status = "running"
        /\ DecryptsTo(last.res, Unwrap(last.arg))

C5_Witness ==
    /\ Coordinated /\ NumActors >= 3 /\ Threshold(pk_set) = 1
    /\ last.arg = Some(Encrypt(PublishPublicKey, <<2, 3>>, 2))
    /\ last.res = Ok(<<2, 3>>)

(* C6 as claimed: in every society with 0 < t < n, mpc_decrypt delivers the
   ciphertext to at least t + 1 actors, opens one meeting, calls accept for
   each actor it delivered to and only then decrypt, so the meeting holds
   at least t + 1 shares. *)
C6_AcceptsAllDelivered ==
    (ValidSociety /\ Coordinated) =>
        /\ Cardinality(last.delivered) >= Threshold(pk_set) + 1
        /\ last.opened = 1
        /\ last.accepted = last.delivered
        /\ last.nshares >= Threshold(pk_set) + 1

(* C6, amended: in every society of at least 3 actors with threshold 1,
   mpc_decrypt delivers the ciphertext to actors 0, 1 and 2, opens one
   meeting, calls accept for actors 0 and 1 only (actor 2 keeps the
   ciphertext in its inbox) and then decrypt, on a meeting that holds
   t + 1 = 2 shares. *)
C6_CoordinatorSteps ==
    (NumActors >= 3 /\ Threshold(pk_set) = 1 /\ Coordinated) =>
        /\ last.outcome = "returned"
        /\ last.delivered = {0, 1, 2}
        /\ Cardinality(last.delivered) >= Threshold(pk_set) + 1
        /\ last.opened = 1
        /\ last.accepted = {0, 1}
        /\ last.nshares = Threshold(pk_set) + 1
        /\ actors[0].msg_inbox = None
        /\ actors[1].msg_inbox = None
        /\ actors[2].msg_inbox = last.arg

C6_Witness ==
    /\ Coordinated /\ NumActors >= 3 /\ Threshold(pk_set) = 1
    /\ last.accepted = {0, 1} /\ last.nshares = 2
    /\ actors[2].msg_inbox = last.arg

MeetingCiphertext == Unwrap(meeting).ciphertext
MeetingShares == Unwrap(meeting).dec_shares

(* C7: the first accept on a meeting without a ciphertext binds it to the
   ciphertext in that actor's inbox, and the ciphertext of a bound meeting
   is the same after every accept and decrypt. *)
C7_Step ==
    /\ (Accepted' /\ ~IsSome(MeetingCiphertext) /\ IsSome(actors[last'.id].msg_inbox))
          => MeetingCiphertext' = actors[last'.id].msg_inbox
    /\ ((Accepted' \/ Decrypted') /\ IsSome(MeetingCiphertext))
          => MeetingCiphertext' = MeetingCiphertext

(* C7: every step keeps the first-writer rule *)
C7_FirstWriter == [][C7_Step]_vars

C7_Witness ==
    /\ Accepted /\ last.outcome = "mismatch"
    /\ IsSome(MeetingCiphertext)
    /\ Unwrap(MeetingCiphertext) \in Ciphertexts
    /\ MeetingCiphertext # last.arg

(* C8: after accept_decryption_share the actor's inbox is empty, whichever
   way the call ended. *)
C8_InboxConsumed ==
    Accepted => actors[last.id].msg_inbox = None

C8_Witness ==
    /\ Accepted /\ last.outcome = "invalid"
    /\ IsSome(last.arg)
    /\ actors[last.id].msg_inbox = None

(* C9: the collected shares hold one entry per actor id, in key order; an
   accept of an actor that already has an entry leaves the count and the
   keys as they were. *)
C9_KeysUnique ==
    IsSome(meeting) =>
        /\ Len(MeetingShares) = Cardinality(MapKeys(MeetingShares))
        /\ \A j, k \in 1..Len(MeetingShares) :
              j < k => MeetingShares[j][1] < MeetingShares[k][1]

C9_Replaced ==
    (Accepted' /\ last'.id \in MapKeys(MeetingShares)) =>
        /\ Len(MeetingShares') = Len(MeetingShares)
        /\ MapKeys(MeetingShares') = MapKeys(MeetingShares)

(* one actor alone, however often it is accepted, is no quorum when
   t + 1 >= 2 *)
C9_NoQuorumAlone ==
    (IsSome(meeting) /\ IsSome(MeetingCiphertext) /\ Threshold(pk_set) >= 1
        /\ Cardinality(MapKeys(MeetingShares)) <= 1) =>
            DecryptMessage(Unwrap(meeting)).res = InsufficientShares

(* C9: one entry per actor id, replaced on re-submission, so that the count
   is the number of distinct actors accepted *)
C9_OneEntryPerActor ==
    [](C9_KeysUnique /\ C9_NoQuorumAlone) /\ [][C9_Replaced]_vars

C9_Witness ==
    /\ Accepted /\ last.outcome = "inserted"
    /\ last.before = 1 /\ last.nshares = 1
    /\ MapKeys(MeetingShares) = {last.id}

(* C10: an accept that rejects the contribution (another ciphertext, or a
   share that fails verification) leaves the collected shares and the
   ciphertext the meeting is bound to as they were, and does not abort. *)
C10_Step ==
    (Accepted' /\ last'.outcome \in {"mismatch", "invalid"}) =>
        /\ MeetingShares' = MeetingShares
        /\ Unwrap(meeting').pk_set = Unwrap(meeting).pk_set
        /\ IsSome(MeetingCiphertext) => meeting' = meeting
        /\ status' = "running"

(* C10: every rejecting step keeps the collected state *)
C10_RejectionKeepsState == [][C10_Step]_vars

(* a share is rejected by a meeting that holds a quorum, and the meeting
   still decrypts *)
C10_Witness ==
    /\ Accepted /\ last.outcome = "invalid"
    /\ last.before = Threshold(pk_set) + 1
    /\ last.nshares = last.before
    /\ DecryptMessage(Unwrap(meeting)).res.tag = "Ok"

(* C11: wherever key material or actors exist, the society they belong to
   satisfies 0 < t < n (MpcNetwork::new refuses every other n and t). *)
C11_ThresholdValidated ==
    (pk_set # <<>> \/ ActorIds # {}) => ValidSociety

(* the lines of mpc_decrypt after send_message to alice, up to the accept
   that takes alice's inbox *)
DeliveredToAlice == {"send_bob", "send_carol", "start", "accept_alice"}

(* the request that took the step *)
Stepped(r) == reqs'[r] # reqs[r]

(* C12: a delivery by one request replaces the ciphertext another request
   left in the actor's inbox, and the first accept of a request binds its
   meeting to whatever the inbox holds; a meeting is bound to a ciphertext
   its request did not submit only if it is one that another request
   delivered. *)
C12_Overwrites ==
    \A r \in Requests :
        /\ (Stepped(r) /\ reqs[r].pc \in {"send_alice", "send_bob", "send_carol"}) =>
              actors'[ActorOfLine(reqs[r].pc)].msg_inbox = reqs[r].ciphertext
        /\ (Stepped(r) /\ reqs[r].pc = "accept_alice" /\ IsSome(actors[0].msg_inbox)) =>
              Unwrap(reqs'[r].meeting).ciphertext = actors[0].msg_inbox

C12_ForeignIsDelivered ==
    \A r \in Requests :
        (IsSome(reqs[r].meeting) /\ IsSome(Unwrap(reqs[r].meeting).ciphertext)
            /\ Unwrap(reqs[r].meeting).ciphertext # reqs[r].ciphertext) =>
                \E o \in Requests \ {r} :
                    /\ reqs[o].ciphertext = Unwrap(reqs[r].meeting).ciphertext
                    /\ reqs[o].pc \notin {"idle", "send_alice"}

(* C12: both parts, the steps that overwrite and bind, and where a foreign
   ciphertext comes from *)
C12_Clobbering == []C12_ForeignIsDelivered /\ [][C12_Overwrites]_vars

(* the clobbered state: a request's meeting is bound to the other request's
   ciphertext *)
C12_Witness ==
    \E r \in Requests, o \in Requests :
        /\ r # o
        /\ reqs[r].ciphertext # reqs[o].ciphertext
        /\ IsSome(reqs[r].meeting)
        /\ Unwrap(reqs[r].meeting).ciphertext = reqs[o].ciphertext
        /\ IsSome(reqs[o].ciphertext)

(* C13: send_message leaves exactly the delivered ciphertext in the inbox of
   the actor it names, whatever the inbox held, and changes nothing else of
   any actor; an inbox holds one ciphertext at most. *)
C13_Step ==
    (last'.op = "send_message") =>
        /\ last'.id \in ActorIds
        /\ IsSome(last'.arg)
        /\ actors'[last'.id].msg_inbox = last'.arg
        /\ DOMAIN actors' = DOMAIN actors
        /\ \A j \in ActorIds \ {last'.id} : actors'[j] = actors[j]
        /\ actors'[last'.id].id = actors[last'.id].id
        /\ actors'[last'.id].pk_share = actors[last'.id].pk_share
        /\ actors'[last'.id].sk_share = actors[last'.id].sk_share

C13_SingleSlot == \A j \in ActorIds : Len(actors[j].msg_inbox) <= 1

(* C13: the slot and the step *)
C13_LastWriteWins == []C13_SingleSlot /\ [][C13_Step]_vars

(* alice's inbox held the ciphertext of one request, not yet taken, when
   the other request delivered another one: it holds the second *)
C13_Witness ==
    \E r \in Requests, o \in Requests :
        /\ r # o
        /\ last.op = "send_message" /\ last.id = 0
        /\ reqs[o].pc = "send_bob"
        /\ reqs[r].pc \in DeliveredToAlice
        /\ reqs[r].ciphertext # reqs[o].ciphertext
        /\ actors[0].msg_inbox = reqs[o].ciphertext
        /\ actors[0].msg_inbox = last.arg

(* the lines of mpc_decrypt at which its local meeting exists *)
MeetingInScope == {"accept_alice", "accept_bob", "decrypt"}

(* the state a meeting starts in *)
Collecting(m) == m.pk_set = pk_set /\ m.ciphertext = None /\ m.dec_shares = <<>>

(* C20: a request has a meeting exactly between its start line and its
   return; the meeting starts with no ciphertext and no shares; a step of
   one request changes nothing of another request, and nothing of a request
   that has returned changes again; the meeting is no part of the network
   state. *)
C20_Scope ==
    /\ meeting = None
    /\ \A r \in Requests : IsSome(reqs[r].meeting) <=> reqs[r].pc \in MeetingInScope

C20_Step ==
    \A r \in Requests :
        /\ (Stepped(r) /\ reqs[r].pc = "start") =>
              /\ reqs[r].meeting = None
              /\ Collecting(Unwrap(reqs'[r].meeting))
        /\ (reqs'[r].meeting # reqs[r].meeting) =>
              /\ reqs[r].pc \in {"start"} \cup MeetingInScope
              /\ \A o \in Requests \ {r} : reqs'[o] = reqs[o]
        /\ (reqs[r].pc = "returned") => reqs'[r] = reqs[r]
        /\ (Stepped(r) /\ reqs'[r].pc = "returned") =>
              /\ reqs[r].pc = "decrypt"
              /\ reqs'[r].meeting = None
              /\ reqs'[r].res = DecryptMessage(Unwrap(reqs[r].meeting)).res

(* C20: one meeting per request, its own, gone once it has produced the
   result *)
C20_OwnMeeting == []C20_Scope /\ [][C20_Step]_vars

(* one request has returned its plaintext and the later one collects shares
   in a meeting of its own for another ciphertext *)
C20_Witness ==
    \E r \in Requests, o \in Requests :
        /\ r # o
        /\ reqs[r].pc = "returned" /\ reqs[r].res.tag = "Ok" /\ reqs[r].meeting = None
        /\ reqs[o].pc = "decrypt"
        /\ Len(Unwrap(reqs[o].meeting).dec_shares) = 2
        /\ Unwrap(reqs[o].meeting).ciphertext = reqs[o].ciphertext
        /\ reqs[o].ciphertext # reqs[r].ciphertext

(* C19: an accept whose share computation fails (decrypt_share gives None
   for the actor's ciphertext) does not abort, and leaves the ciphertext
   the meeting is bound to and the shares it has collected as they were. *)
C19_Step ==
    (Accepted' /\ IsSome(actors[last'.id].msg_inbox)
        /\ ~CiphertextDiffers(Unwrap(meeting), Unwrap(actors[last'.id].msg_inbox))
        /\ ~IsSome(DecryptShare(actors[last'.id].sk_share,
                                Unwrap(actors[last'.id].msg_inbox)))) =>
            /\ status' = "running"
            /\ MeetingShares' = MeetingShares
            /\ MeetingCiphertext' = MeetingCiphertext

C19_ShareErrorIsLocal == [][C19_Step]_vars

(* ---------------------------- properties of the channel ---------------- *)
(* the Diffie-Hellman value of two secrets, G^(a*b), as bytes *)
DhValue(a, b) == ToBytes(ModExp(G, a * b))

(* the key a party derives for the society's blobs, and the key the last
   blob was sealed under *)
KeyOf(party) == DhValue(chan.keys[party].sk, chan.keys["mpc"].sk)
SealKey == DhValue(chan.keys["mpc"].sk, chan.keys[Unwrap(chan.sent).to].sk)

Opened == IsSome(chan.opened)
OpenedBy == Unwrap(chan.opened).by
Sent == Unwrap(chan.sent)

(* the positions at which the blob that arrived differs from the one sent *)
Altered == {k \in 1..Len(Sent.blob) : Unwrap(chan.wire)[k] # Sent.blob[k]}

(* C14: decrypt of a blob that was sealed under another key, or that
   differs from what encrypt emitted in one byte (of the nonce, of the
   ciphertext or of the tag), fails on the AEAD authentication error (the
   unwrap of aead::Error ends the call) and returns no plaintext.  The two
   cases are taken one at a time: a blob that was both altered and opened
   under another key is a forgery attempt against a tag of TagLen two-bit
   bytes. *)
C14_Rejected ==
    (Opened /\ (chan.tampered # (KeyOf(OpenedBy) # SealKey))) =>
        /\ Unwrap(chan.opened).outcome = "panic_aead"
        /\ Unwrap(chan.opened).bytes = None
        /\ status = "panicked"

(* C14: the same for every key, payload, nonce and altered byte *)
C14_AnyByte ==
    \A m \in Payloads, n \in Nonces, a \in Scalars, b \in Scalars :
        LET blob == EcdhEncrypt(m, DhValue(a, 1), n)
        IN  /\ DhValue(a, 1) # DhValue(b, 1) =>
                  EcdhDecrypt(blob, DhValue(b, 1)).bytes = None
            /\ \A k \in 1..Len(blob), byte \in 0..3 :
                  byte # blob[k] =>
                      EcdhDecrypt([blob EXCEPT ![k] = byte], DhValue(a, 1)).bytes = None

C14_AuthenticationFailure == C14_Rejected /\ C14_AnyByte

(* the recipient opens a blob of which one byte of the nonce prefix was
   changed *)
C14_Witness ==
    /\ Opened /\ chan.tampered
    /\ OpenedBy = Sent.to
    /\ \E k \in 1..NonceLen : Altered = {k}
    /\ Unwrap(chan.opened).outcome = "panic_aead"

(* C15: the blob encrypt emits is the nonce it sealed with, NonceLen bytes,
   followed by the sealed ciphertext and tag; decrypt takes the nonce from
   that prefix, and decrypt(encrypt(m, k), k) = m for every m and k. *)
C15_Framing ==
    IsSome(chan.sent) =>
        /\ Len(Sent.blob) = NonceLen + Len(Sent.msg) + TagLen
        /\ SubSeq(Sent.blob, 1, NonceLen) = Sent.nonce
        /\ AeadDecrypt(SealKey, SubSeq(Sent.blob, 1, NonceLen),
                       SubSeq(Sent.blob, NonceLen + 1, Len(Sent.blob))) = Some(Sent.msg)

C15_Opened ==
    (Opened /\ ~chan.tampered /\ KeyOf(OpenedBy) = SealKey) =>
        /\ Unwrap(chan.opened).outcome = "returned"
        /\ Unwrap(chan.opened).bytes = Some(Sent.msg)

C15_AnyKey ==
    \A m \in Payloads, n \in Nonces, x \in 1..(Q - 1) :
        EcdhDecrypt(EcdhEncrypt(m, ToBytes(x), n), ToBytes(x)) =
            [outcome |-> "returned", bytes |-> Some(m)]

C15_RoundTrip == C15_Framing /\ C15_Opened /\ C15_AnyKey

C15_Witness ==
    /\ Opened /\ ~chan.tampered
    /\ Sent.msg = <<1, 3>>
    /\ Unwrap(chan.opened).bytes = Some(<<1, 3>>)
    /\ SubSeq(Unwrap(chan.wire), 1, NonceLen) = Sent.nonce

(* C16: for any two parties, compute_shared_secret of one's secret and the
   other's public key is the same value either way round, the bytes of
   G^(a*b), and the blob is sealed under exactly those bytes. *)
C16_Symmetric ==
    \A a \in DOMAIN chan.keys, b \in DOMAIN chan.keys :
        /\ ComputeSharedSecret(chan.keys[a].sk, chan.keys[b].pk)
               = ComputeSharedSecret(chan.keys[b].sk, chan.keys[a].pk)
        /\ ComputeSharedSecret(chan.keys[a].sk, chan.keys[b].pk)
               = DhValue(chan.keys[a].sk, chan.keys[b].sk)

C16_KeyIsSecret ==
    IsSome(chan.sent) =>
        /\ chan.seals[Len(chan.seals)].key = SealKey
        /\ Sent.blob = Sent.nonce \o AeadEncrypt(SealKey, Sent.nonce, Sent.msg)

C16_Agreement == C16_Symmetric /\ C16_KeyIsSecret

(* the society and the recipient hold different secrets and the recipient
   has opened the blob with the key it derived *)
C16_Witness ==
    /\ Opened /\ ~chan.tampered
    /\ OpenedBy = Sent.to
    /\ chan.keys[OpenedBy].sk # chan.keys["mpc"].sk
    /\ Unwrap(chan.opened).outcome = "returned"
    /\ ComputeSharedSecret(chan.keys[OpenedBy].sk, chan.keys["mpc"].pk) = SealKey

(* C17: the user the society wrapped the payload for recovers exactly the
   payload with its own secret key and the society's public key; a user
   with another secret key gets no plaintext from the same blob. *)
C17_EndToEnd ==
    (Opened /\ ~chan.tampered) =>
        /\ OpenedBy = Sent.to =>
              /\ Unwrap(chan.opened).outcome = "returned"
              /\ Unwrap(chan.opened).bytes = Some(Sent.msg)
        /\ chan.keys[OpenedBy].sk # chan.keys[Sent.to].sk =>
              Unwrap(chan.opened).bytes = None

(* a user the blob was not wrapped for, with a secret of its own, has tried
   to open it *)
C17_Witness ==
    /\ Opened /\ ~chan.tampered
    /\ OpenedBy # Sent.to
    /\ chan.keys[OpenedBy].sk # chan.keys[Sent.to].sk
    /\ Sent.msg = <<1, 3>>
    /\ Unwrap(chan.opened).bytes = None

(* C18 as claimed: no two encrypt calls under the same key seal with the
   same nonce. *)
C18_NoncesNeverRepeat ==
    \A i \in 1..Len(chan.seals), j \in 1..Len(chan.seals) :
        (i < j /\ chan.seals[i].key = chan.seals[j].key) =>
            chan.seals[i].nonce # chan.seals[j].nonce

(* C18, amended: every encrypt call seals with the nonce generate_nonce
   returned for that call and puts that nonce at the front of the blob, so
   two calls seal with the same nonce exactly when the generator returned
   the same nonce twice. *)
C18_NonceIsTheDraw ==
    /\ \A i \in 1..Len(chan.seals) : chan.seals[i].nonce = chan.seals[i].draw
    /\ \A i \in 1..Len(chan.seals), j \in 1..Len(chan.seals) :
          chan.seals[i].nonce = chan.seals[j].nonce <=>
              chan.seals[i].draw = chan.seals[j].draw
    /\ IsSome(chan.sent) =>
          /\ chan.seals[Len(chan.seals)].draw = Sent.nonce
          /\ IsSome(AeadDecrypt(SealKey, chan.seals[Len(chan.seals)].nonce,
                                SubSeq(Sent.blob, NonceLen + 1, Len(Sent.blob))))

(* two calls under one key, the generator having returned two nonces *)
C18_Witness ==
    /\ Len(chan.seals) = 2
    /\ chan.seals[1].key = chan.seals[2].key
    /\ chan.seals[1].nonce # chan.seals[2].nonce
    /\ chan.seals[2].draw = <<3, 1, 0>>

(* C21: no call changes the public key set (and with it the threshold), the
   set of actors, or an actor's id, public key share or secret key share:
   of an actor only the inbox changes; publish_public_key changes nothing
   and returns the constant coefficient of the public key set every time. *)
C21_Step ==
    /\ pk_set' = pk_set
    /\ Threshold(pk_set') = Threshold(pk_set)
    /\ DOMAIN actors' = DOMAIN actors
    /\ \A j \in ActorIds :
          /\ actors'[j].id = actors[j].id
          /\ actors'[j].pk_share = actors[j].pk_share
          /\ actors'[j].sk_share = actors[j].sk_share
    /\ (last'.op = "publish_public_key") =>
          /\ last'.res = Ok(<<pk_set[1]>>)
          /\ status' = status /\ actors' = actors /\ meeting' = meeting
          /\ reqs' = reqs /\ chan' = chan
    /\ (last'.op = "ecdh_encrypt") =>
          /\ actors' = actors /\ meeting' = meeting /\ chan'.keys = chan.keys

C21_KeysFrozen == [][C21_Step]_vars

(* publish_public_key called after shares were taken and collected: the
   actors hold the shares they were dealt *)
C21_Witness ==
    /\ last.op = "publish_public_key"
    /\ last.res = Ok(<<pk_set[1]>>)
    /\ \E r \in Requests :
          /\ reqs[r].pc = "decrypt"
          /\ Len(Unwrap(reqs[r].meeting).dec_shares) = 2
    /\ actors[0].msg_inbox = None /\ IsSome(actors[2].msg_inbox)
    /\ \A j \in ActorIds : actors[j].pk_share = PublicKeyShare(pk_set, j)

(* the request is about to accept alice, who has no ciphertext pending, in a
   society where bob alone is no quorum *)
AliceSilent(r) ==
    /\ status = "running"
    /\ reqs[r].pc = "accept_alice"
    /\ actors[0].msg_inbox = None
    /\ Threshold(pk_set) >= 1

Surfaced(r) == reqs[r].pc = "returned" /\ reqs[r].res.tag \in {"Ok", "Err"}

(* C22: a request one of whose chosen actors has no ciphertext pending, so
   that fewer than t + 1 of them respond, eventually returns to its caller
   (with the InsufficientShares error, or with the plaintext if the actor
   was delivered to in the meantime). *)
C22_EndsWithError ==
    \A r \in Requests : AliceSilent(r) ~> Surfaced(r)

(* ---------------------------- properties of main ------------------------ *)
(* the square of the distance between the two players, in position units *)
TrueDistanceSq ==
    LET p1 == Unwrap(game.p1)
        p2 == Unwrap(game.p2)
    IN  (p2[1] - p1[1]) * (p2[1] - p1[1]) + (p2[2] - p1[2]) * (p2[2] - p1[2])

WithinViewRange == TrueDistanceSq <= FOW_VIEW_RANGE * FOW_VIEW_RANGE

(* C24: in the Mpc flow Bob's position is revealed (decrypted, wrapped and
   sent to Alice) exactly when the distance between the two positions is at
   most FOW_VIEW_RANGE = 11 position units; when Bob is farther away nothing
   is wrapped or sent *)
C24_RevealedIffInRange ==
    /\ IsSome(game.should_reveal) => (Unwrap(game.should_reveal) <=> WithinViewRange)
    /\ IsSome(game.for_alice) => WithinViewRange

(* C25: when Bob's position is revealed, the pair Alice has after opening
   and parsing the two blobs is Bob's position, coordinate for coordinate *)
C25_AliceObtainsBobsPosition ==
    IsSome(game.result) =>
        Unwrap(game.result) = <<U32(Unwrap(game.p2)[1]), U32(Unwrap(game.p2)[2])>>

(* C30: fhe_distance returns the same (quotient, remainder) when its two
   points are exchanged, for coordinates over the whole u32 range, also when
   x2 < x1 or y2 < y1 makes a subtraction wrap modulo 2^32 *)
C30_Symmetric ==
    IsSome(game.distance) =>
        LET fhe == Unwrap(game.fhe)
        IN  Unwrap(game.distance) = FheDistance(fhe[3], fhe[4], fhe[1], fhe[2])

(* fhe_distance has returned for a second point to the left of and above
   the first: x2 - x1 wraps in this order, y2 - y1 in the other *)
C30_Witness ==
    /\ game.pc = "distance"
    /\ Unwrap(game.fhe)[1] = U32(16) /\ Unwrap(game.fhe)[3] = U32(2)
    /\ Unwrap(game.fhe)[2] = U32(0) /\ Unwrap(game.fhe)[4] = U32(4)
    /\ WrappingSub(Unwrap(game.fhe)[3], Unwrap(game.fhe)[1]) = <<Half - 1, Half - 14>>
    /\ Unwrap(game.distance) = <<U32(1459), U32(0)>>

(* ---------------------------- properties of the AVS --------------------- *)
(* m1 + ... + mk over the moves made under public_key so far *)
RECURSIVE SumOfMoves(_, _, _)
SumOfMoves(calls, public_key, k) ==
    IF k = 0 THEN <<0, 0>>
    ELSE LET before == SumOfMoves(calls, public_key, k - 1)
         IN  IF calls[k][1] = public_key
             THEN <<before[1] + calls[k][2][1], before[2] + calls[k][2][2]>>
             ELSE before

MovesUnder(calls, public_key) == {k \in 1..Len(calls) : calls[k][1] = public_key}

EncryptionOf(position, public_key) ==
    [x |-> [key |-> public_key, value |-> position[1]],
     y |-> [key |-> public_key, value |-> position[2]]]

(* what is stored for every key is the encryption of the sum of its moves,
   nothing is stored for a key that has not moved, and a run_contract call
   returned what it stored *)
C26_Sum ==
    /\ \A public_key \in FhePublicKeys :
          LET total == SumOfMoves(avs.calls, public_key, Len(avs.calls))
              stored == avs.node.encrypted_positions
          IN  IF MovesUnder(avs.calls, public_key) = {}
              THEN GetPublicKeyHex(public_key) \notin DOMAIN stored
              ELSE /\ GetPublicKeyHex(public_key) \in DOMAIN stored
                   /\ stored[GetPublicKeyHex(public_key)] = EncryptionOf(total, public_key)
    /\ avs.op = "run_contract" =>
          LET public_key == avs.calls[Len(avs.calls)][1]
          IN  Unwrap(avs.returned)
                  = EncryptionOf(SumOfMoves(avs.calls, public_key, Len(avs.calls)),
                                 public_key)

(* get_prev_position changes nothing and returns what is stored, or (0, 0)
   under the caller's key; run_contract leaves the other keys' positions as
   they were *)
C26_Step ==
    /\ avs'.op = "get_prev_position" =>
          /\ avs'.node = avs.node
          /\ avs'.calls = avs.calls
          /\ \E public_key \in FhePublicKeys :
                Unwrap(avs'.returned)
                    = EncryptionOf(SumOfMoves(avs.calls, public_key, Len(avs.calls)),
                                   public_key)
    /\ avs'.op = "run_contract" =>
          LET public_key == avs'.calls[Len(avs'.calls)][1]
          IN  \A other \in DOMAIN avs.node.encrypted_positions :
                 other # GetPublicKeyHex(public_key) =>
                    /\ other \in DOMAIN avs'.node.encrypted_positions
                    /\ avs'.node.encrypted_positions[other]
                           = avs.node.encrypted_positions[other]

(* C26: for any sequence of run_contract calls under one FHE public key with
   moves m1..mk, the k-th call returns and stores under that key the
   encryption of m1 + ... + mk, starting from (0, 0) when nothing is stored
   for the key; get_prev_position changes no state, and the positions stored
   under other public keys are unchanged *)
C26_PositionState == []C26_Sum /\ [][C26_Step]_vars

(* the third move, the second one under key 1, after a move under key 2 *)
C26_Witness ==
    /\ avs # NoAvs
    /\ avs.op = "run_contract"
    /\ avs.calls = << <<1, <<1, 0>>>>, <<2, <<3, 3>>>>, <<1, <<0 - 1, 2>>>> >>
    /\ Unwrap(avs.returned) = EncryptionOf(<<0, 2>>, 1)
    /\ avs.node.encrypted_positions[GetPublicKeyHex(2)] = EncryptionOf(<<3, 3>>, 2)

(* ---------------------------- properties of accept in mpc_decrypt ------- *)
(* one mpc_decrypt call never ends in the empty-inbox panic: it accepts only
   actors it has delivered to, and what it leaves at actor 2 is its own
   ciphertext; an accept_decryption_share call panics on the empty inbox
   exactly when the actor's inbox is empty, and then the meeting is as it
   was before the call *)
C27_Step ==
    /\ last'.op = "mpc_decrypt" =>
          /\ last'.outcome # "panic_inbox"
          /\ last'.accepted \subseteq last'.delivered
          /\ last'.accepted # {} =>
                /\ \A id \in last'.accepted : ~IsSome(actors'[id].msg_inbox)
                /\ actors'[2].msg_inbox = last'.arg
    /\ last'.op = "accept_decryption_share" =>
          /\ last'.outcome = "panic_inbox" <=> ~IsSome(actors[last'.id].msg_inbox)
          /\ last'.outcome = "panic_inbox" =>
                /\ meeting' = meeting
                /\ status' = "panicked"
                /\ last'.res = NoResult

(* C27: within mpc_decrypt every actor passed to accept was delivered the
   request's ciphertext earlier in the same call, so accept never meets an
   empty inbox there; an accept on an actor whose inbox is empty panics
   instead of returning an error, and has not modified the meeting *)
C27_AcceptAfterDelivery == [][C27_Step]_vars

(* an accept has panicked on an empty inbox while the meeting held a share,
   after an mpc_decrypt call had left its ciphertext at actor 2 *)
C27_Witness ==
    /\ status = "panicked"
    /\ last.op = "accept_decryption_share"
    /\ last.outcome = "panic_inbox"
    /\ IsSome(meeting)
    /\ Len(Unwrap(meeting).dec_shares) = 1
    /\ 2 \in DOMAIN actors
    /\ IsSome(actors[2].msg_inbox)

(* ---------------------------- properties of calls in sequence ----------- *)
InProgress(r) == reqs[r].pc \notin {"idle", "returned"}

(* C28: in a society of at least 3 actors with t = 1, for mpc_decrypt calls
   made one after another: no call panics and each returns the plaintext of
   its own ciphertext; the meeting of a call is bound to that call's
   ciphertext only; from the first accept of a call on, actor 2's inbox
   holds that call's ciphertext (what an earlier call left there is gone);
   and between calls the inboxes of actors 0 and 1 are empty *)
C28_SequentialIndependent ==
    (NumActors >= 3 /\ Threshold(pk_set) = 1) =>
        /\ status = "running"
        /\ \A r \in Requests :
              /\ reqs[r].pc = "returned" =>
                    DecryptsTo(reqs[r].res, Unwrap(reqs[r].ciphertext))
              /\ (IsSome(reqs[r].meeting) /\ IsSome(Unwrap(reqs[r].meeting).ciphertext)) =>
                    Unwrap(reqs[r].meeting).ciphertext = reqs[r].ciphertext
              /\ reqs[r].pc \in {"accept_alice", "accept_bob", "decrypt"} =>
                    actors[2].msg_inbox = reqs[r].ciphertext
        /\ (\A r \in Requests : ~InProgress(r)) =>
              /\ ~IsSome(actors[0].msg_inbox)
              /\ ~IsSome(actors[1].msg_inbox)

(* the second call is about to accept alice: the first call has returned its
   own plaintext, and what it left at actor 2 has been replaced by the
   second call's ciphertext *)
C28_Witness ==
    /\ NumActors >= 3 /\ Threshold(pk_set) = 1
    /\ reqs[1].pc = "returned"
    /\ reqs[1].ciphertext = Some(Encrypt(PublishPublicKey, <<2, 3>>, 2))
    /\ reqs[1].res = Ok(<<2, 3>>)
    /\ reqs[2].pc = "accept_alice"
    /\ reqs[2].ciphertext = Some(Encrypt(PublishPublicKey, <<>>, 1))
    /\ actors[2].msg_inbox = reqs[2].ciphertext

(* ---------------------------- properties of binding --------------------- *)
(* a meeting that holds a share has a ciphertext *)
C29_SharesImplyBound ==
    IsSome(meeting) =>
        (Len(Unwrap(meeting).dec_shares) > 0 => IsSome(Unwrap(meeting).ciphertext))

(* an accept of an actor that has a ciphertext pending, on a meeting
   without one, leaves the meeting bound to that ciphertext, also when the
   share failed verification and the shares are what they were; an accept on
   a bound meeting of an actor with another ciphertext leaves the meeting as
   it was, whether it holds shares or not *)
C29_Step ==
    (last'.op = "accept_decryption_share" /\ IsSome(meeting)
        /\ IsSome(actors[last'.id].msg_inbox)) =>
        /\ ~IsSome(Unwrap(meeting).ciphertext) =>
              /\ Unwrap(meeting').ciphertext = actors[last'.id].msg_inbox
              /\ last'.outcome = "invalid" =>
                    Unwrap(meeting').dec_shares = Unwrap(meeting).dec_shares
        /\ (IsSome(Unwrap(meeting).ciphertext)
              /\ Unwrap(meeting).ciphertext # actors[last'.id].msg_inbox) =>
              /\ last'.outcome = "mismatch"
              /\ meeting' = meeting

(* C29: an accept on an unbound meeting leaves the meeting bound to that
   actor's ciphertext even when the actor's share then fails verification
   and nothing is inserted; hence a meeting with shares has a ciphertext
   bound, while a bound meeting may hold no share and drops later actors
   that carry a different ciphertext *)
C29_BindBeforeVerify == []C29_SharesImplyBound /\ [][C29_Step]_vars

(* a meeting bound by an actor whose share failed verification holds no
   share and has just dropped an actor that carried another ciphertext *)
C29_Witness ==
    /\ last.op = "accept_decryption_share"
    /\ last.outcome = "mismatch"
    /\ IsSome(meeting)
    /\ IsSome(Unwrap(meeting).ciphertext)
    /\ Len(Unwrap(meeting).dec_shares) = 0
    /\ last.arg # Unwrap(meeting).ciphertext

(* ---------------------------- properties of the record keys -------------- *)
(* the branch of handle_get_record_result that reads the type a put site
   serialised into the value *)
BranchOf(value) ==
    IF value = "UserKeyPair" THEN "encrypted_fhe_key"
    ELSE IF value = "EncryptedPosition" THEN "position"
    ELSE "avs_public_key"

IsAlphanumeric(peer_id) == \A k \in 1..Len(peer_id) : peer_id[k] \in Alphanumeric

(* each of the three keys of a peer id is recognised by its own predicate
   and by neither of the other two, and the position key gives the peer id
   back *)
KeysApart(peer_id) ==
    LET position == FormPositionKey(peer_id)
        avs_public_key == FormAvsPublicKey(peer_id)
        encrypted_fhe_key == FormEncryptedFheKey(peer_id)
    IN  /\ IsPositionKey(position)
        /\ ~IsAvsPublicKey(position)
        /\ ~IsEncryptedFheKey(position)
        /\ IsAvsPublicKey(avs_public_key)
        /\ ~IsPositionKey(avs_public_key)
        /\ ~IsEncryptedFheKey(avs_public_key)
        /\ IsEncryptedFheKey(encrypted_fhe_key)
        /\ ~IsPositionKey(encrypted_fhe_key)
        /\ ~IsAvsPublicKey(encrypted_fhe_key)
        /\ GetPeerIdFromPositionKey(position) = Some(peer_id)

(* C31: DHT record dispatch is unambiguous: for every alphanumeric peer id
   the key built by form_position_key, form_avs_public_key or
   form_encrypted_fhe_key is recognised by its own predicate and by neither
   of the other two; handle_get_record_result takes the branch of the put
   site that wrote the record; and get_peer_id_from_position_key gives back
   the peer id form_position_key was called with *)
C31_DispatchUnambiguous ==
    /\ \A n \in Names : IsAlphanumeric(dht.peer_id[n]) => KeysApart(dht.peer_id[n])
    /\ IsSome(dht.handled) =>
          LET h == Unwrap(dht.handled)
          IN  /\ h.branch = BranchOf(h.record.value)
              /\ h.branch = "position" =>
                    \E n \in Names :
                        /\ h.record.key = FormPositionKey(dht.peer_id[n])
                        /\ h.peer_id = Some(dht.peer_id[n])

(* a node whose peer id reads POSITION has fetched its own position record
   and decrypted it under its own key, its peer's id being 2 *)
C31_Witness ==
    /\ IsSome(dht.handled)
    /\ LET h == Unwrap(dht.handled)
       IN  /\ h.branch = "position"
           /\ h.outcome = "decrypt_own_position"
           /\ h.record.key = FormPositionKey(POSITION)
           /\ h.record.publisher = Some(POSITION)
           /\ h.peer_id = Some(POSITION)
           /\ dht.peer_id[Other(h.node)] = <<"2">>

====
